---------------------------- MODULE Spec2Model ----------------------------
(***************************************************************************)
(* A model of seeker_fs: the packed binary filesystem format, the writer   *)
(* (CreateSeekerFS) that packs a source tree into a write+seek sink, the   *)
(* in-memory SeekableBuffer, and the reader (SeekerFS, SeekerFSFile) that  *)
(* resolves paths by binary search over on-stream directory entries.       *)
(*                                                                         *)
(* The stream is a sequence of bytes (0..255).  Names are byte sequences.  *)
(* Headers are encoded and decoded field by field, little-endian, as       *)
(* encoding/binary does for the File struct.                               *)
(***************************************************************************)
EXTENDS Integers, Sequences, FiniteSets, TLC

(***************************************************************************)
(* Bounds of the model.                                                    *)
(***************************************************************************)
\* The largest number of entries below the root in a source tree.
MaxNodes == 3
\* The payload length of a non-empty source file.
MaxData == 3
\* The largest number of entries below the root in a tree the reader is
\* tried on.
MaxReadNodes == 2
\* The largest number of SeekerFS handles a single caller makes by Sub.
MaxSub == 1
\* The largest number of SeekerFS handles the threads make by Sub.
MaxSubMT == 2
\* The largest number of SeekerFSFile handles one caller has open at a time.
MaxFiles == 1
\* The number of threads that call the reader at the same time.
NumThreads == 2
\* The largest offset a thread's fetch is followed to.
MaxStream == 256
\* The number of bytes that precede the header in a source NewSeekerFS is
\* tried on alone.
LoadPad == 1
\* The largest offset Seek is followed to.
MaxCursor == 5

(***************************************************************************)
(* Byte-level helpers.                                                     *)
(***************************************************************************)
Min(a, b) == IF a < b THEN a ELSE b

Max(a, b) == IF a > b THEN a ELSE b

Zeros(n) == [i \in 1..n |-> 0]

\* data[from .. to-1] with Go's zero-based, end-exclusive slice indices.
Slice(data, from, to) == SubSeq(data, from + 1, to)

\* binary.LittleEndian encoding of a uint64.  The model's integers stay
\* below 2^31, so the four high bytes are zero.
PutUint64(v) ==
    <<v % 256, (v \div 256) % 256, (v \div 65536) % 256,
      (v \div 16777216) % 256, 0, 0, 0, 0>>

\* The largest integer of the model; it stands for every value from 2^31 - 1
\* upwards.
Huge == 2147483647

\* The eight bytes hold a uint64 above 2^31 - 1.
Above31(b) == b[4] >= 128 \/ \E i \in 5..8 : b[i] # 0

\* binary.LittleEndian decoding of a uint64.
Uint64(b) ==
    IF Above31(b) THEN Huge
    ELSE b[1] + 256 * b[2] + 65536 * b[3] + 16777216 * b[4]

\* strings.Compare on byte sequences: -1, 0 or 1.
RECURSIVE stringsCompare(_, _)
stringsCompare(a, b) ==
    IF a = <<>> /\ b = <<>> THEN 0
    ELSE IF a = <<>> THEN -1
    ELSE IF b = <<>> THEN 1
    ELSE IF Head(a) < Head(b) THEN -1
    ELSE IF Head(a) > Head(b) THEN 1
    ELSE stringsCompare(Tail(a), Tail(b))

(***************************************************************************)
(* The File header (type File) and its codec.                              *)
(***************************************************************************)
\* "1337FILE"
MagicBytes == <<49, 51, 51, 55, 70, 73, 76, 69>>

\* A mode word is kept as its eight little-endian bytes.  fs.ModeDir is bit
\* 31, the top bit of the fourth byte.
ModeDirByte == 128

\* fs.FileMode 0755 | fs.ModeDir and 0644 as uint64 mode words.
ModeOfDir == <<237, 1, 0, ModeDirByte, 0, 0, 0, 0>>

ModeOfFile == <<164, 1, 0, 0, 0, 0, 0, 0>>

\* binary.Size(File{}): eight fields of eight bytes.
fileStructSize == 64

\* The zero value File{}.  SizeAbove tells a Size above 2^31 - 1, which the
\* Size field holds as Huge, from a Size of 2^31 - 1.
ZeroFile ==
    [Magic |-> Zeros(8), Mode |-> Zeros(8), ShortName |-> Zeros(8), NameOffset |-> 0,
     NameSize |-> 0, DataOffset |-> 0, Size |-> 0, ModTime |-> 0,
     SizeAbove |-> FALSE]

\* binary.Write(w, binary.LittleEndian, file): the bytes of a File.
EncodeFile(f) ==
    f.Magic \o f.Mode \o f.ShortName \o PutUint64(f.NameOffset)
    \o PutUint64(f.NameSize) \o PutUint64(f.DataOffset) \o PutUint64(f.Size)
    \o PutUint64(f.ModTime)

\* binary.Read(r, binary.LittleEndian, &file) on fileStructSize bytes.
DecodeFile(b) ==
    [Magic |-> Slice(b, 0, 8), Mode |-> Slice(b, 8, 16),
     ShortName |-> Slice(b, 16, 24), NameOffset |-> Uint64(Slice(b, 24, 32)),
     NameSize |-> Uint64(Slice(b, 32, 40)),
     DataOffset |-> Uint64(Slice(b, 40, 48)), Size |-> Uint64(Slice(b, 48, 56)),
     ModTime |-> Uint64(Slice(b, 56, 64)),
     SizeAbove |-> Above31(Slice(b, 48, 56))]

\* File.IsDir: the directory bit of Mode.
IsDir(f) == f.Mode[4] >= ModeDirByte

\* File.GetShortName without the "..." suffix of abbreviated names: the part
\* of ShortName that holds name bytes.
GetShortName(f) ==
    IF f.NameSize <= 8 THEN Slice(f.ShortName, 0, f.NameSize) ELSE f.ShortName

\* A Validate that checks the magic only.
Validate_MagicOnly(f) == f.Magic = MagicBytes

\* File.Validate: TRUE when the header passes.
Validate(f) ==
    /\ f.Magic = MagicBytes
    /\ ~(IsDir(f) /\ f.SizeAbove)

(***************************************************************************)
(* SeekableBuffer: [Data, Offset].                                         *)
(***************************************************************************)
SeekStart == 0

SeekCurrent == 1

SeekEnd == 2

NewSeekableBuffer == [Data |-> <<>>, Offset |-> 0]

\* SeekableBuffer.expandToSize: Data grown to size, the new bytes zero.
expandToSize(b, size) ==
    [b EXCEPT !.Data = b.Data \o Zeros(size - Len(b.Data))]

\* A failed Seek that puts the offset back to the start of the buffer.
seekFailed_Reset(b) == [b EXCEPT !.Offset = 0]

\* The buffer after a Seek that returned an error: as it was.
seekFailed(b) == b

\* SeekableBuffer.Seek: [b, n, e], the buffer after the call, the returned
\* offset and whether an error was returned.
BufferSeek(b, offset, whence) ==
    IF whence \notin {SeekStart, SeekCurrent, SeekEnd}
    THEN [b |-> seekFailed(b), n |-> b.Offset, e |-> TRUE]
    ELSE LET baseOffset == IF whence = SeekStart THEN 0
                           ELSE IF whence = SeekEnd THEN Len(b.Data)
                           ELSE b.Offset
             newOffset == baseOffset + offset
         IN  IF newOffset < 0
             THEN [b |-> seekFailed(b), n |-> b.Offset, e |-> TRUE]
             ELSE IF newOffset <= Len(b.Data)
             THEN [b |-> [b EXCEPT !.Offset = newOffset], n |-> newOffset,
                   e |-> FALSE]
             ELSE [b |-> [expandToSize(b, newOffset) EXCEPT !.Offset = newOffset],
                   n |-> newOffset, e |-> FALSE]

\* SeekableBuffer.Read of up to n bytes: [b, data, eof].
BufferRead(b, n) ==
    LET start == b.Offset
        limit == Min(start + n, Len(b.Data))
    IN  IF start >= Len(b.Data) THEN [b |-> b, data |-> <<>>, eof |-> TRUE]
        ELSE [b |-> [b EXCEPT !.Offset = limit],
              data |-> Slice(b.Data, start, limit), eof |-> FALSE]

\* A Write that ends the buffer where the written bytes end.
BufferWrite_Truncating(b, data) ==
    [b EXCEPT !.Data = Slice(b.Data, 0, b.Offset) \o data]

\* SeekableBuffer.Write: the buffer after the call.  The bytes land at
\* Offset; Offset itself is not assigned by the method.
BufferWrite(b, data) ==
    LET start == b.Offset
        limit == start + Len(data)
        grown == IF limit > Len(b.Data) THEN expandToSize(b, limit) ELSE b
    IN  [grown EXCEPT !.Data =
            Slice(grown.Data, 0, start) \o data
            \o Slice(grown.Data, limit, Len(grown.Data))]

(***************************************************************************)
(* Names and paths.  A path is a byte string with "/" between components.  *)
(***************************************************************************)
Slash == 47

Dot == <<46>>

DotDot == <<46, 46>>

\* strings.Split(path, "/"): the components, empty ones included.
RECURSIVE Split(_)
Split(path) ==
    IF \A i \in 1..Len(path) : path[i] # Slash THEN <<path>>
    ELSE LET i == CHOOSE k \in 1..Len(path) :
                      path[k] = Slash /\ \A j \in 1..(k - 1) : path[j] # Slash
         IN  <<SubSeq(path, 1, i - 1)>> \o Split(SubSeq(path, i + 1, Len(path)))

\* fs.ValidPath: "." or a sequence of components none of which is empty,
\* "." or "..".
ValidPath(path) ==
    \/ path = Dot
    \/ \A k \in 1..Len(Split(path)) : Split(path)[k] \notin {<<>>, Dot, DotDot}

\* The base names used in source trees: 1, 8, 9 and 9 bytes, the last three
\* sharing their first 8 bytes.
NameA == <<97>>

NameH == <<97, 98, 99, 100, 101, 102, 103, 104>>

NameI == NameH \o <<105>>

NameJ == NameH \o <<106>>

NamePool == {NameA, NameH, NameI, NameJ}

(***************************************************************************)
(* The source filesystem (fs.FS): node 0 is the root directory, tree[i]    *)
(* describes node i >= 1 as [parent, name, dir, size].                     *)
(***************************************************************************)
Nodes(tree) == 0..Len(tree)

Children(tree, d) == {j \in 1..Len(tree) : tree[j].parent = d}

NodeIsDir(tree, i) == IF i = 0 THEN TRUE ELSE tree[i].dir

\* The payload of file node i: size bytes, different for every node.
FileData(tree, i) == [k \in 1..tree[i].size |-> 16 * i + k]

\* fs.File.Stat of node i: the fs.FileInfo the writer reads.
Stat(tree, i) ==
    IF i = 0
    THEN [Name |-> Dot, Size |-> 0, Mode |-> ModeOfDir, ModTime |-> 1000,
          IsDir |-> TRUE]
    ELSE [Name |-> tree[i].name,
          Size |-> IF tree[i].dir THEN 0 ELSE tree[i].size,
          Mode |-> IF tree[i].dir THEN ModeOfDir ELSE ModeOfFile,
          ModTime |-> 1000 + i, IsDir |-> tree[i].dir]

\* The node a list of components leads to from directory d, or -1.
RECURSIVE Walk(_, _, _)
Walk(tree, d, comps) ==
    IF comps = <<>> THEN d
    ELSE LET hit == {j \in Children(tree, d) : tree[j].name = Head(comps)}
         IN  IF hit = {} THEN -1
             ELSE Walk(tree, CHOOSE j \in hit : TRUE, Tail(comps))

\* inputFS.Open(path): the node opened, or -1 when the open fails.
FSOpen(tree, path) ==
    IF ~ValidPath(path) THEN -1
    ELSE IF path = Dot THEN 0
    ELSE Walk(tree, 0, Split(path))

\* What a node below the root can be: a directory, an empty file or a file
\* with MaxData bytes.
NodeKinds ==
    {[dir |-> TRUE, size |-> 0], [dir |-> FALSE, size |-> 0],
     [dir |-> FALSE, size |-> MaxData]}

\* The ways to add one more node to a tree: under the root or an earlier
\* directory, with a base name no sibling has.  Nodes are numbered parent by
\* parent and, under one parent, by ascending name, so that every tree is
\* listed once; the order in which a directory lists its entries is chosen
\* when the directory is read.
Extensions(tree) ==
    LET last == IF tree = <<>> THEN [parent |-> 0, name |-> <<>>]
                ELSE tree[Len(tree)]
    IN  {Append(tree, [parent |-> p, name |-> n, dir |-> k.dir,
                       size |-> k.size]) :
            p \in {j \in Nodes(tree) : j >= last.parent /\ NodeIsDir(tree, j)},
            n \in NamePool,
            k \in NodeKinds}

\* Base names are unique per directory, and the nodes are numbered in order.
WellFormed(tree) ==
    \A i \in 2..Len(tree) :
        \/ tree[i - 1].parent < tree[i].parent
        \/ /\ tree[i - 1].parent = tree[i].parent
           /\ stringsCompare(tree[i - 1].name, tree[i].name) < 0

RECURSIVE TreesOfSize(_)
TreesOfSize(n) ==
    IF n = 0 THEN {<<>>}
    ELSE UNION {{t \in Extensions(s) : WellFormed(t)} : s \in TreesOfSize(n - 1)}

\* Every source tree with unique base names per directory, up to MaxNodes
\* entries below the root.
Trees == UNION {TreesOfSize(n) : n \in 0..MaxNodes}

(***************************************************************************)
(* The writer.  An outputQueue is the record                               *)
(*   [unprocessed, inputFS, output, settings, totalFilesWritten]           *)
(* and a fileToProcess is [toProcess, path, fileHeaderOffset, depth], with *)
(* toProcess the source node the open file belongs to.  The record also    *)
(* holds closes, the number of Close calls made on each node's open file,  *)
(* and writes, the Write calls the sink has taken, in order: [op, at, n],   *)
(* n bytes written at offset at by writeDataAndGetLocation ("append"),     *)
(* io.CopyN ("copy") or writeDataAtLocation ("patch").                     *)
(* Operators that can fail return the queue after the call and e, "nil" or *)
(* the kind of error.                                                      *)
(***************************************************************************)
\* The zero value CreateFSSettings{}: every limit off.
DefaultSettings == [MaxDepth |-> 0, MaxOutputSize |-> 0, MaxTotalEntries |-> 0]

\* One Write call on the sink b, as the queue's record keeps it.
Wrote(op, b, data) == [op |-> op, at |-> b.Offset, n |-> Len(data)]

\* outputQueue.seekToEnd: [b, n, e] of the sink's Seek(0, io.SeekEnd).
seekToEnd(q) == BufferSeek(q.output, 0, SeekEnd)

\* A checkWriteLimit that lets every write through.
checkWriteLimit_Off(q, newEnd) == FALSE

\* outputQueue.checkWriteLimit: TRUE when an error is returned.
checkWriteLimit(q, newEnd) ==
    q.settings.MaxOutputSize > 0 /\ newEnd > q.settings.MaxOutputSize

\* outputQueue.writeDataAndGetLocation: [q, loc, e].
writeDataAndGetLocation(q, toWrite) ==
    LET sought(s) ==
            IF s.e THEN [q |-> q, loc |-> 0, e |-> "seek"]
            ELSE IF checkWriteLimit(q, s.n + Len(toWrite))
            THEN [q |-> [q EXCEPT !.output = s.b], loc |-> 0,
                  e |-> "MaxOutputSize"]
            ELSE [q |-> [q EXCEPT !.output = BufferWrite(s.b, toWrite),
                                  !.writes = Append(@, Wrote("append", s.b,
                                                             toWrite))],
                  loc |-> s.n, e |-> "nil"]
    IN  sought(seekToEnd(q))

\* writeDataAtLocation with the seek to the reserved offset left out: the
\* bytes go to the end of the stream.
writeDataAtLocation_NoSeek(q, toWrite, offset) ==
    LET written(w) == [q |-> w.q, e |-> w.e]
    IN  written(writeDataAndGetLocation(q, toWrite))

\* outputQueue.writeDataAtLocation: [q, e].
writeDataAtLocation(q, toWrite, offset) ==
    LET sought(s) ==
            IF s.e THEN [q |-> q, e |-> "seek"]
            ELSE IF checkWriteLimit(q, offset + Len(toWrite))
            THEN [q |-> [q EXCEPT !.output = s.b], e |-> "MaxOutputSize"]
            ELSE [q |-> [q EXCEPT !.output = BufferWrite(s.b, toWrite),
                                  !.writes = Append(@, Wrote("patch", s.b,
                                                             toWrite))],
                  e |-> "nil"]
    IN  sought(BufferSeek(q.output, offset, SeekStart))

\* An entry limit that is checked after the count has passed it.
overTotalEntries_Late(q) ==
    q.settings.MaxTotalEntries > 0
    /\ q.totalFilesWritten > q.settings.MaxTotalEntries

\* reserveHeaderAndEnqueue's check of the limit on the number of entries.
overTotalEntries(q) ==
    q.settings.MaxTotalEntries > 0
    /\ q.totalFilesWritten >= q.settings.MaxTotalEntries

\* A depth limit that lets the first level beyond it through.
overMaxDepth_Late(q, depth) ==
    q.settings.MaxDepth > 0 /\ depth > q.settings.MaxDepth + 1

\* reserveHeaderAndEnqueue's check of the limit on the depth.
overMaxDepth(q, depth) ==
    q.settings.MaxDepth > 0 /\ depth > q.settings.MaxDepth

\* outputQueue.reserveHeaderAndEnqueue: [q, e].
reserveHeaderAndEnqueue(q, f, path, depth) ==
    LET counted == [q EXCEPT !.totalFilesWritten = @ + 1]
        written(w) ==
            IF w.e # "nil" THEN [q |-> w.q, e |-> w.e]
            ELSE [q |-> [w.q EXCEPT !.unprocessed =
                            Append(@, [toProcess |-> f, path |-> path,
                                       fileHeaderOffset |-> w.loc,
                                       depth |-> depth])],
                  e |-> "nil"]
    IN  IF overTotalEntries(q)
        THEN [q |-> q, e |-> "MaxTotalEntries"]
        ELSE IF overMaxDepth(q, depth)
        THEN [q |-> counted, e |-> "MaxDepth"]
        ELSE written(writeDataAndGetLocation(counted, EncodeFile(ZeroFile)))

\* getSeekerFSHeader with the whole name copied into ShortName's place,
\* keeping the last 8 bytes of a long name instead of the first.
getSeekerFSHeader_NameTail(info) ==
    [ZeroFile EXCEPT
        !.Magic = MagicBytes,
        !.Mode = info.Mode,
        !.ShortName = [i \in 1..8 |->
                          IF Len(info.Name) > 8
                          THEN info.Name[Len(info.Name) - 8 + i]
                          ELSE IF i <= Len(info.Name) THEN info.Name[i] ELSE 0],
        !.NameSize = Len(info.Name),
        !.ModTime = info.ModTime]

\* getSeekerFSHeader: the header of an fs.FileInfo, with NameOffset,
\* DataOffset and Size left zero.
getSeekerFSHeader(info) ==
    [ZeroFile EXCEPT
        !.Magic = MagicBytes,
        !.Mode = info.Mode,
        !.ShortName = [i \in 1..8 |->
                          IF i <= Len(info.Name) THEN info.Name[i] ELSE 0],
        !.NameSize = Len(info.Name),
        !.ModTime = info.ModTime]

\* io.CopyN(q.output, f, size): the payload reaches the sink in one Write
\* per Read of the source file, each Read returning at most chunk bytes.
RECURSIVE CopyN(_, _, _)
CopyN(b, data, chunk) ==
    IF data = <<>> THEN b
    ELSE LET n == Min(chunk, Len(data))
         IN  CopyN(BufferWrite(b, SubSeq(data, 1, n)),
                   SubSeq(data, n + 1, Len(data)), chunk)

\* The Write calls io.CopyN makes on the sink, one per Read of the source.
RECURSIVE CopyWrites(_, _, _)
CopyWrites(b, data, chunk) ==
    IF data = <<>> THEN <<>>
    ELSE LET n == Min(chunk, Len(data))
         IN  <<Wrote("copy", b, SubSeq(data, 1, n))>>
             \o CopyWrites(BufferWrite(b, SubSeq(data, 1, n)),
                           SubSeq(data, n + 1, Len(data)), chunk)

\* A writeFileContent that back-patches the header first, with the offsets
\* the name and the payload are going to get, and writes them afterwards.
writeFileContent_PatchFirst(q, queueEntry, stat, chunk) ==
    LET size == stat.Size
        long == Len(stat.Name) > 8
        end == Len(q.output.Data)
        header ==
            [getSeekerFSHeader(stat) EXCEPT
                !.NameOffset = IF long THEN end ELSE 0,
                !.Size = size,
                !.DataOffset =
                    IF size = 0 THEN 0
                    ELSE end + (IF long THEN Len(stat.Name) ELSE 0)]
        copied(n, s) ==
            [n.q EXCEPT
                !.output =
                    CopyN(s.b, FileData(q.inputFS, queueEntry.toProcess),
                          chunk),
                !.writes =
                    @ \o CopyWrites(s.b, FileData(q.inputFS,
                                                  queueEntry.toProcess),
                                    chunk)]
        named(n) ==
            IF n.e # "nil" THEN [q |-> n.q, e |-> n.e]
            ELSE [q |-> IF size > 0 THEN copied(n, seekToEnd(n.q)) ELSE n.q,
                  e |-> "nil"]
        patched(p) ==
            IF p.e # "nil" THEN p
            ELSE named(IF long THEN writeDataAndGetLocation(p.q, stat.Name)
                       ELSE [q |-> p.q, loc |-> 0, e |-> "nil"])
    IN  patched(writeDataAtLocation(q, EncodeFile(header),
                                    queueEntry.fileHeaderOffset))

\* outputQueue.writeFileContent: [q, e].
writeFileContent(q, queueEntry, stat, chunk) ==
    LET size == stat.Size
        header(n, dataOffset) ==
            [getSeekerFSHeader(stat) EXCEPT
                !.NameOffset = n.loc,
                !.Size = size,
                !.DataOffset = dataOffset]
        copied(n, s) ==
            [n.q EXCEPT
                !.output =
                    CopyN(s.b, FileData(q.inputFS, queueEntry.toProcess),
                          chunk),
                !.writes =
                    @ \o CopyWrites(s.b, FileData(q.inputFS,
                                                  queueEntry.toProcess),
                                    chunk)]
        sought(n, s) ==
            IF size > 0 /\ s.e THEN [q |-> n.q, e |-> "seek"]
            ELSE IF size > 0
                    /\ checkWriteLimit([n.q EXCEPT !.output = s.b], s.n + size)
            THEN [q |-> [n.q EXCEPT !.output = s.b], e |-> "MaxOutputSize"]
            ELSE writeDataAtLocation(
                     IF size > 0 THEN copied(n, s) ELSE n.q,
                     EncodeFile(header(n, IF size > 0 THEN s.n ELSE 0)),
                     queueEntry.fileHeaderOffset)
        named(n) ==
            IF n.e # "nil" THEN [q |-> n.q, e |-> n.e]
            ELSE sought(n, seekToEnd(n.q))
    IN  named(IF Len(stat.Name) > 8
              THEN writeDataAndGetLocation(q, stat.Name)
              ELSE [q |-> q, loc |-> 0, e |-> "nil"])

\* dirEntrySlice.Less on two entries of the source directory.
Less(tree, a, b) == stringsCompare(tree[a].name, tree[b].name) < 0

\* One entry put in its place in an already sorted list.
RECURSIVE InsertSorted(_, _, _)
InsertSorted(tree, sorted, x) ==
    IF sorted = <<>> THEN <<x>>
    ELSE IF Less(tree, x, Head(sorted)) THEN <<x>> \o sorted
    ELSE <<Head(sorted)>> \o InsertSorted(tree, Tail(sorted), x)

\* sortEntries with the sort left out: the entries in directory order.
sortEntries_Unsorted(tree, entries) == entries

\* sort.Sort(dirEntrySlice(entries)): the entries ordered by Less.
RECURSIVE sortEntries(_, _)
sortEntries(tree, entries) ==
    IF entries = <<>> THEN <<>>
    ELSE InsertSorted(tree, sortEntries(tree, Tail(entries)), Head(entries))

\* The loop of writeDirContent over the sorted entries: each child is opened
\* by its path and given a header slot, stopping at the first error.
RECURSIVE enqueueEntries(_, _, _, _)
enqueueEntries(q, fullPath, entries, depth) ==
    LET reserved(r) ==
            IF r.e # "nil" THEN r
            ELSE enqueueEntries(r.q, fullPath, Tail(entries), depth)
        gotFile(newPath, newFile) ==
            IF newFile = -1 THEN [q |-> q, e |-> "open"]
            ELSE reserved(reserveHeaderAndEnqueue(q, newFile, newPath, depth))
        child(newPath) == gotFile(newPath, FSOpen(q.inputFS, newPath))
    IN  IF entries = <<>> THEN [q |-> q, e |-> "nil"]
        ELSE child(IF fullPath = Dot THEN q.inputFS[Head(entries)].name
                   ELSE fullPath \o <<Slash>> \o q.inputFS[Head(entries)].name)

\* outputQueue.writeDirContent: [q, e].  entries is what the directory's
\* ReadDir(-1) returned, in directory order.
writeDirContent(q, queueEntry, stat, entries) ==
    LET enqueued(n, s, enq) ==
            IF enq.e # "nil" THEN enq
            ELSE writeDataAtLocation(
                     enq.q,
                     EncodeFile([getSeekerFSHeader(stat) EXCEPT
                                    !.NameOffset = n.loc,
                                    !.DataOffset = s.n,
                                    !.Size = Len(entries)]),
                     queueEntry.fileHeaderOffset)
        sought(n, s) ==
            IF s.e THEN [q |-> n.q, e |-> "seek"]
            ELSE enqueued(n, s,
                          enqueueEntries([n.q EXCEPT !.output = s.b],
                                         queueEntry.path,
                                         sortEntries(q.inputFS, entries),
                                         queueEntry.depth + 1))
        named(n) ==
            IF n.e # "nil" THEN [q |-> n.q, e |-> n.e]
            ELSE IF Len(entries) = 0
            THEN writeDataAtLocation(
                     n.q,
                     EncodeFile([getSeekerFSHeader(stat) EXCEPT
                                    !.NameOffset = n.loc]),
                     queueEntry.fileHeaderOffset)
            ELSE sought(n, seekToEnd(n.q))
    IN  named(IF Len(stat.Name) > 8
              THEN writeDataAndGetLocation(q, stat.Name)
              ELSE [q |-> q, loc |-> 0, e |-> "nil"])

\* A Close that is called at the end of a step that succeeded, and not on
\* the error returns.
deferredClose_OnSuccess(q, f, e) ==
    IF e = "nil" THEN [q EXCEPT !.closes[f] = @ + 1] ELSE q

\* processNextFile's `defer f.Close()`: the popped task's source file f is
\* closed when the step returns, whatever error e it returns.
deferredClose(q, f, e) == [q EXCEPT !.closes[f] = @ + 1]

\* outputQueue.processNextFile: [q, e].
processNextFile(q, entries, chunk) ==
    LET returned(toProcess, r) ==
            [q |-> deferredClose(r.q, toProcess.toProcess, r.e), e |-> r.e]
        next(toProcess, popped, stat) ==
            returned(toProcess,
                     IF ~stat.IsDir
                     THEN writeFileContent(popped, toProcess, stat, chunk)
                     ELSE writeDirContent(popped, toProcess, stat, entries))
    IN  IF Len(q.unprocessed) = 0 THEN [q |-> q, e |-> "empty"]
        ELSE next(q.unprocessed[Len(q.unprocessed)],
                  [q EXCEPT !.unprocessed = SubSeq(@, 1, Len(@) - 1)],
                  Stat(q.inputFS,
                       q.unprocessed[Len(q.unprocessed)].toProcess))

\* The outputQueue CreateSeekerFS builds before it enqueues the root.
NewQueue(f, output, settings) ==
    [unprocessed |-> <<>>, inputFS |-> f, output |-> output,
     settings |-> settings, totalFilesWritten |-> 0,
     closes |-> [i \in Nodes(f) |-> 0], writes |-> <<>>]

\* The orders in which a directory's ReadDir(-1) may list the entries S.
Perms(S) ==
    {p \in [1..Cardinality(S) -> S] :
        \A i, j \in 1..Cardinality(S) : i # j => p[i] # p[j]}

\* The sizes of the Reads that feed io.CopyN: short ones, or the whole
\* payload at once.
ChunkSizes == {MaxData - 1, MaxData}

(***************************************************************************)
(* The reader.  A SeekerFS is [data, topFile, lock]: the source it reads,  *)
(* its root header and its mutex; a SeekerFSFile is [p, f, readOffset].    *)
(* The source is a SeekableBuffer.  The operators below give what a call   *)
(* does when no other call runs in between: each takes the source and      *)
(* returns it as the call leaves it, with e the error, "nil" for none.     *)
(***************************************************************************)
\* io.ReadFull(src, buf) with len(buf) = n: [src, data, e].  Fewer than n
\* bytes left in the source is an error.
ReadFull(src, n) ==
    LET result(r) ==
            IF r.eof THEN [src |-> src, data |-> <<>>, e |-> "EOF"]
            ELSE IF Len(r.data) < n
            THEN [src |-> r.b, data |-> r.data, e |-> "ErrUnexpectedEOF"]
            ELSE [src |-> r.b, data |-> r.data, e |-> "nil"]
    IN  IF n = 0 THEN [src |-> src, data |-> <<>>, e |-> "nil"]
        ELSE result(BufferRead(src, n))

\* SeekerFS.seek: [b, n, e] of the source's Seek(location, io.SeekStart).
seek(src, location) == BufferSeek(src, location, SeekStart)

\* SeekerFS.readAtOffset of n bytes: [src, data, e].
readAtOffset(src, n, location) ==
    LET read(r) ==
            IF r.e # "nil" THEN [src |-> r.src, data |-> <<>>, e |-> "other"]
            ELSE r
        sought(s) ==
            IF s.e THEN [src |-> src, data |-> <<>>, e |-> "other"]
            ELSE read(ReadFull(s.b, n))
    IN  sought(seek(src, location))

\* The nil *File of a SeekerFSFile that was closed; 0 is its nil *SeekerFS.
\* Reading a field of it panics: the call ends with "panic" there and then.
NilFile == [nil |-> TRUE]

\* getFileName: [src, name, e].
getFileName(src, f) ==
    LET read(r) == [src |-> r.src, name |-> r.data, e |-> r.e]
    IN  IF f = NilFile THEN [src |-> src, name |-> <<>>, e |-> "panic"]
        ELSE IF f.NameSize <= 8
        THEN [src |-> src, name |-> Slice(f.ShortName, 0, f.NameSize),
              e |-> "nil"]
        ELSE read(readAtOffset(src, f.NameSize, f.NameOffset))

\* The nil *SeekerFSFileInfo.
NoFileInfo ==
    [FileName |-> <<>>, FileSize |-> 0, FileMode |-> Zeros(8),
     FileModTime |-> 0]

\* getFileInfo: [src, info, e], info the SeekerFSFileInfo.
getFileInfo(src, f) ==
    LET named(r) ==
            IF r.e = "panic" THEN [src |-> r.src, info |-> NoFileInfo, e |-> r.e]
            ELSE [src |-> r.src,
                  info |-> [FileName |-> r.name, FileSize |-> f.Size,
                            FileMode |-> f.Mode, FileModTime |-> f.ModTime],
                  e |-> IF r.e # "nil" THEN "other" ELSE "nil"]
    IN  named(getFileName(src, f))

\* The offset getDirEntry reads entry n of directory f at.
dirEntryOffset(f, n) == f.DataOffset + n * fileStructSize

\* getDirEntry: [src, f, e].
getDirEntry(src, f, n) ==
    LET read(r) ==
            IF r.e # "nil" THEN [src |-> r.src, f |-> ZeroFile, e |-> "other"]
            ELSE [src |-> r.src, f |-> DecodeFile(r.data), e |-> "nil"]
        sought(s) ==
            IF s.e THEN [src |-> src, f |-> ZeroFile, e |-> "other"]
            ELSE read(ReadFull(s.b, fileStructSize))
    IN  IF ~IsDir(f) \/ n < 0 \/ n >= f.Size
        THEN [src |-> src, f |-> ZeroFile, e |-> "other"]
        ELSE sought(seek(src, dirEntryOffset(f, n)))

\* The part of compareFileName that needs no more than the header:
\* [decided, r], decided when r is the result, and not when the first 8
\* bytes are equal and the full name is to be fetched.
shortCompare(f, toCheck) ==
    LET short(shortResult) == [decided |-> shortResult # 0, r |-> shortResult]
    IN  IF Len(toCheck) <= 8 /\ f.NameSize <= 8
        THEN [decided |-> TRUE, r |-> stringsCompare(GetShortName(f), toCheck)]
        ELSE IF Len(toCheck) < 8
        THEN [decided |-> TRUE,
              r |-> stringsCompare(Slice(f.ShortName, 0, 8), toCheck)]
        ELSE IF f.NameSize < 8
        THEN [decided |-> TRUE, r |-> stringsCompare(GetShortName(f), toCheck)]
        ELSE short(stringsCompare(Slice(f.ShortName, 0, 8), toCheck))

\* compareFileName: [src, r, e], r the result of strings.Compare of f's
\* name with toCheck.
compareFileName(src, f, toCheck) ==
    LET longer(long) ==
            IF long.e # "nil" THEN [src |-> long.src, r |-> 1, e |-> "other"]
            ELSE [src |-> long.src, r |-> stringsCompare(long.name, toCheck),
                  e |-> "nil"]
        shorter(c) ==
            IF c.decided THEN [src |-> src, r |-> c.r, e |-> "nil"]
            ELSE longer(getFileName(src, f))
    IN  shorter(shortCompare(f, toCheck))

\* The first index of getNamedDirEntry's search.
searchBegin(f) == 0

\* The last index of getNamedDirEntry's search.
searchEnd(f) == f.Size

\* The index getNamedDirEntry probes next.
searchMid(beginIndex, endIndex) == (beginIndex + endIndex) \div 2

\* The interval getNamedDirEntry goes on with after a probe of currentIndex
\* that compared unequal.
narrow(beginIndex, endIndex, currentIndex, compareResult) ==
    IF compareResult < 0
    THEN [beginIndex |-> beginIndex, endIndex |-> currentIndex - 1]
    ELSE [beginIndex |-> currentIndex + 1, endIndex |-> endIndex]

\* The loop of getNamedDirEntry: [src, f, e].
RECURSIVE searchLoop(_, _, _, _, _)
searchLoop(src, f, name, beginIndex, endIndex) ==
    LET again(at, next) ==
            searchLoop(at, f, name, next.beginIndex, next.endIndex)
        compared(currentIndex, currentEntry, c) ==
            IF c.e # "nil" THEN [src |-> c.src, f |-> ZeroFile, e |-> "other"]
            ELSE IF c.r = 0
            THEN [src |-> c.src, f |-> currentEntry.f, e |-> "nil"]
            ELSE again(c.src, narrow(beginIndex, endIndex, currentIndex, c.r))
        probed(currentIndex, currentEntry) ==
            IF currentEntry.e # "nil"
            THEN [src |-> currentEntry.src, f |-> ZeroFile, e |-> "other"]
            ELSE compared(currentIndex, currentEntry,
                          compareFileName(currentEntry.src, currentEntry.f,
                                          name))
        probe(currentIndex) ==
            probed(currentIndex, getDirEntry(src, f, currentIndex))
    IN  IF ~(beginIndex <= endIndex)
        THEN [src |-> src, f |-> ZeroFile, e |-> "ErrNotExist"]
        ELSE probe(searchMid(beginIndex, endIndex))

\* getNamedDirEntry: [src, f, e].
getNamedDirEntry(src, f, name) ==
    IF ~IsDir(f) THEN [src |-> src, f |-> ZeroFile, e |-> "other"]
    ELSE IF f.Size = 0 THEN [src |-> src, f |-> ZeroFile, e |-> "ErrNotExist"]
    ELSE searchLoop(src, f, name, searchBegin(f), searchEnd(f))

\* The loop of resolveFilePath over the components: [src, f, e].  The error
\* of a failed lookup is wrapped with %w, which keeps its kind.
RECURSIVE resolveComponents(_, _, _)
resolveComponents(src, currentFile, components) ==
    LET found(r) ==
            IF r.e # "nil" THEN r
            ELSE resolveComponents(r.src, r.f, Tail(components))
    IN  IF components = <<>>
        THEN [src |-> src, f |-> currentFile, e |-> "nil"]
        ELSE found(getNamedDirEntry(src, currentFile, Head(components)))

\* A resolveFilePath that looks every path up, checked or not.
resolveFilePath_Unchecked(src, topDir, path) ==
    IF path = Dot THEN [src |-> src, f |-> topDir, e |-> "nil"]
    ELSE resolveComponents(src, topDir, Split(path))

\* resolveFilePath: [src, f, e].
resolveFilePath(src, topDir, path) ==
    IF ~ValidPath(path) THEN [src |-> src, f |-> ZeroFile, e |-> "ErrInvalid"]
    ELSE IF path = Dot THEN [src |-> src, f |-> topDir, e |-> "nil"]
    ELSE resolveComponents(src, topDir, Split(path))

\* NewSeekerFS: [src, f, e], f the root header of the new SeekerFS.
NewSeekerFS(src) ==
    LET decoded(at, topFile) ==
            IF ~Validate(topFile) \/ ~IsDir(topFile)
            THEN [src |-> at, f |-> ZeroFile, e |-> "other"]
            ELSE [src |-> at, f |-> topFile, e |-> "nil"]
        read(r) ==
            IF r.e # "nil" THEN [src |-> r.src, f |-> ZeroFile, e |-> "other"]
            ELSE decoded(r.src, DecodeFile(r.data))
    IN  read(ReadFull(src, fileStructSize))

\* A SeekerFS that stays rooted where its parent is.
subTopFile_Parent(p, f) == p.topFile

\* The topFile Sub gives the SeekerFS it returns: the directory resolved.
subTopFile(p, f) == f

\* A SeekerFS made by Sub that gets a mutex of its own.
subLock_Fresh(p, fresh) == fresh

\* The mutex a SeekerFS made by Sub from p uses.
subLock(p, fresh) == p.lock

\* The SeekerFS Sub returns for directory f resolved in p.
newSubFS(p, f, fresh) ==
    [data |-> p.data, topFile |-> subTopFile(p, f), lock |-> subLock(p, fresh)]

\* SeekerFS.Sub: [src, fs, e, pathError].  fresh is a mutex no SeekerFS uses.
Sub(src, p, path, fresh) ==
    LET resolved(r) ==
            IF r.e # "nil"
            THEN [src |-> r.src, fs |-> p, e |-> r.e, pathError |-> TRUE]
            ELSE IF ~IsDir(r.f)
            THEN [src |-> r.src, fs |-> p, e |-> "other", pathError |-> FALSE]
            ELSE [src |-> r.src, fs |-> newSubFS(p, r.f, fresh),
                  e |-> "nil", pathError |-> FALSE]
    IN  resolved(resolveFilePath(src, p.topFile, path))

\* SeekerFSFile.Read into a buffer of length len: [src, file, n, data, e].
Read(src, file, len) ==
    LET read(bytesToRead, r) ==
            IF r.e # "nil"
            THEN [src |-> r.src, file |-> file, n |-> 0, data |-> <<>>,
                  e |-> "other"]
            ELSE [src |-> r.src,
                  file |-> [file EXCEPT !.readOffset = @ + bytesToRead],
                  n |-> bytesToRead, data |-> r.data, e |-> "nil"]
        fetch(bytesToRead) ==
            read(bytesToRead,
                 readAtOffset(src, bytesToRead,
                              file.f.DataOffset + file.readOffset))
    IN  IF file.f = NilFile
        THEN [src |-> src, file |-> file, n |-> 0, data |-> <<>>, e |-> "panic"]
        ELSE IF IsDir(file.f)
        THEN [src |-> src, file |-> file, n |-> 0, data |-> <<>>, e |-> "other"]
        ELSE IF file.readOffset >= file.f.Size
        THEN [src |-> src, file |-> file, n |-> 0, data |-> <<>>, e |-> "EOF"]
        ELSE fetch(Min(len, file.f.Size - file.readOffset))

\* A Close that rewinds the handle and keeps its references.
Close_KeepsRefs(file) == [file EXCEPT !.readOffset = 0]

\* SeekerFSFile.Close: the handle with its references dropped.  It returns
\* nil and touches nothing else.
Close(file) == [p |-> 0, f |-> NilFile, readOffset |-> 0]

\* A Seek that stops at the end of the file.
seekTarget_Clamped(file, newOffset) == Min(newOffset, file.f.Size)

\* The readOffset SeekerFSFile.Seek sets for a newOffset that is not
\* negative.
seekTarget(file, newOffset) == newOffset

\* A Seek that rewinds the file when the new offset is negative.
seekRefused_Rewound(file) == [file EXCEPT !.readOffset = 0]

\* The file after SeekerFSFile.Seek found the new offset negative.
seekRefused(file) == file

\* A Seek that rewinds the directory it refuses.
seekInDir_Rewinds(file) ==
    [file |-> [file EXCEPT !.readOffset = 0], n |-> 0, e |-> "other"]

\* What SeekerFSFile.Seek returns on a directory: [file, n, e].
seekInDir(file) == [file |-> file, n |-> 0, e |-> "other"]

\* SeekerFSFile.Seek(offset, whence): [file, n, e].
Seek(file, offset, whence) ==
    LET moved(newOffset) ==
            IF newOffset < 0
            THEN [file |-> seekRefused(file), n |-> 0, e |-> "other"]
            ELSE [file |-> [file EXCEPT !.readOffset =
                                            seekTarget(file, newOffset)],
                  n |-> newOffset, e |-> "nil"]
    IN  IF file.f = NilFile THEN [file |-> file, n |-> 0, e |-> "panic"]
        ELSE IF IsDir(file.f) THEN seekInDir(file)
        ELSE IF whence = SeekStart THEN moved(offset)
        ELSE IF whence = SeekEnd THEN moved(file.f.Size + offset)
        ELSE IF whence = SeekCurrent THEN moved(file.readOffset + offset)
        ELSE [file |-> [file EXCEPT !.readOffset = 0], n |-> 0, e |-> "other"]

\* ReadDir's loop over rawEntries, done the infos made so far:
\* [src, infos, e].
RECURSIVE readDirInfos(_, _, _)
readDirInfos(src, rawEntries, done) ==
    LET got(r) ==
            IF r.e # "nil" THEN [src |-> r.src, infos |-> done, e |-> "other"]
            ELSE readDirInfos(r.src, rawEntries, Append(done, r.info))
    IN  IF Len(done) = Len(rawEntries)
        THEN [src |-> src, infos |-> done, e |-> "nil"]
        ELSE got(getFileInfo(src, rawEntries[Len(done) + 1]))

\* A ReadDir(n) that counts n entries on whatever the directory holds.
readDirEnd_Unclamped(file, n) ==
    IF n <= 0 THEN file.f.Size ELSE file.readOffset + n

\* The end entry ReadDir(n) stops before.
readDirEnd(file, n) ==
    IF n <= 0 THEN file.f.Size ELSE Min(file.readOffset + n, file.f.Size)

\* SeekerFSFile.ReadDir(n): [src, file, infos, e].
ReadDir(src, file, n) ==
    LET failed(at, e) == [src |-> at, file |-> file, infos |-> <<>>, e |-> e]
        listed(endEntry, r) ==
            IF r.e # "nil" THEN failed(r.src, "other")
            ELSE [src |-> r.src,
                  file |-> [file EXCEPT !.readOffset = endEntry],
                  infos |-> r.infos, e |-> "nil"]
        read(endEntry, r) ==
            IF r.e # "nil" THEN failed(r.src, "other")
            ELSE listed(endEntry,
                        readDirInfos(r.src,
                            [i \in 1..(Len(r.data) \div fileStructSize) |->
                                DecodeFile(Slice(r.data,
                                                 (i - 1) * fileStructSize,
                                                 i * fileStructSize))],
                            <<>>))
        sought(startEntry, endEntry, s) ==
            IF s.e THEN failed(src, "other")
            ELSE read(endEntry,
                      ReadFull(s.b, (endEntry - startEntry) * fileStructSize))
        block(startEntry, endEntry) ==
            sought(startEntry, endEntry,
                   seek(src, file.f.DataOffset + startEntry * fileStructSize))
    IN  IF file.f = NilFile THEN failed(src, "panic")
        ELSE IF ~IsDir(file.f) THEN failed(src, "other")
        ELSE IF file.readOffset >= file.f.Size THEN failed(src, "EOF")
        ELSE block(file.readOffset, readDirEnd(file, n))

(***************************************************************************)
(* The writer as a state machine.                                          *)
(***************************************************************************)
VARIABLES
    queue,      \* the outputQueue of the running CreateSeekerFS; queue.output
                \* is the buffer the writer fills and the reader then reads
    pc,         \* "start", "loop", "done" (nil returned), or the kind of
                \* the error returned: the limit that was passed
    slotOf,     \* history: the header slot reserved for each source node
    fss,        \* the SeekerFS handles made so far, NewSeekerFS's first
    files,      \* the SeekerFSFile handles made so far
    made,       \* history: how each SeekerFS was made, [parent, path, node]
    opened,     \* history: how each SeekerFSFile was made and what was read
                \* from it since it was opened or sought, and told about it,
                \* [h, path, got, info, t, closed],
                \* t the thread that owns it or 0, closed whether Close
                \* was called on it
    last,       \* the last reader call and what it returned
    th,         \* the call each thread is in and how far it has got
    holder      \* for each mutex, the thread that holds it, or 0

vars == <<queue, pc, slotOf, fss, files, made, opened, last, th, holder>>

writerVars == <<queue, pc, slotOf>>

readerVars == <<fss, files, made, opened, last>>

threadVars == <<th, holder>>

Threads == 1..NumThreads

\* The mutexes: one per SeekerFS there can be, were each to have its own.
LockIds == 1..(MaxSubMT + 2)

\* No fetch from the source.
NoIO == [kind |-> "none", locked |-> FALSE, location |-> 0, n |-> 0]

\* A thread that is in no call.
Idle ==
    [pc |-> "idle", op |-> "none", h |-> 0, k |-> 0, path |-> <<>>,
     comps |-> <<>>, cur |-> ZeroFile, beginIndex |-> 0, endIndex |-> 0,
     currentIndex |-> 0, entry |-> ZeroFile, raw |-> <<>>, names |-> <<>>,
     io |-> NoIO, buf |-> <<>>, ioe |-> "nil", e |-> "nil", f |-> ZeroFile]

\* What a reader call returned, all fields; n is the count or the offset it
\* returned, infos the directory entries.
Returned(op, h, k, path, e, pathError, f, data) ==
    [op |-> op, h |-> h, k |-> k, path |-> path, e |-> e,
     pathError |-> pathError, f |-> f, data |-> data, n |-> Len(data),
     infos |-> <<>>]

\* The SeekerFSFileInfo of a call that returned none.
NoInfo == NoFileInfo

NoCall == Returned("none", 0, 0, <<>>, "nil", FALSE, ZeroFile, <<>>)

\* slotOf extended by the entries a step pushed.
Reserved(old, q) ==
    [i \in DOMAIN old |->
        IF \E k \in 1..Len(q.unprocessed) : q.unprocessed[k].toProcess = i
        THEN LET k == CHOOSE k \in 1..Len(q.unprocessed) :
                          q.unprocessed[k].toProcess = i
             IN  q.unprocessed[k].fileHeaderOffset
        ELSE old[i]]

\* The arguments of CreateSeekerFS: a source tree, an empty SeekableBuffer and
\* no limits.  No SeekerFS exists yet.
InitWith(trees) ==
    /\ \E tree \in trees :
        /\ queue = NewQueue(tree, NewSeekableBuffer, DefaultSettings)
        /\ slotOf = [i \in Nodes(tree) |-> -1]
    /\ pc = "start"
    /\ fss = <<>>
    /\ files = <<>>
    /\ made = <<>>
    /\ opened = <<>>
    /\ last = NoCall
    /\ th = [t \in Threads |-> Idle]
    /\ holder = [l \in LockIds |-> 0]

Init == InitWith(Trees)

\* CreateSeekerFS up to its loop: the root is opened and given the first
\* header slot.
CreateSeekerFS ==
    /\ pc = "start"
    /\ LET reserved(r) ==
               /\ queue' = r.q
               /\ slotOf' = Reserved(slotOf, r.q)
               /\ pc' = IF r.e # "nil" THEN r.e ELSE "loop"
       IN  reserved(reserveHeaderAndEnqueue(queue, FSOpen(queue.inputFS, Dot),
                                            Dot, 0))
    /\ UNCHANGED <<readerVars, threadVars>>

\* A loop that goes on to the next task after a step that failed.
loopAfter_KeepGoing(r) ==
    IF Len(r.q.unprocessed) # 0 THEN "loop"
    ELSE IF r.e # "nil" THEN r.e
    ELSE "done"

\* Where CreateSeekerFS is after processNextFile returned r: it returns the
\* error of a failed step, returns nil when the stack is empty, and loops
\* otherwise.
loopAfter(r) ==
    IF r.e # "nil" THEN r.e
    ELSE IF Len(r.q.unprocessed) = 0 THEN "done"
    ELSE "loop"

\* One iteration of CreateSeekerFS's loop, and its return when the stack is
\* empty afterwards or the step failed.
ProcessNextFile ==
    /\ pc = "loop"
    /\ Len(queue.unprocessed) # 0
    /\ \E entries \in Perms(Children(queue.inputFS,
                       queue.unprocessed[Len(queue.unprocessed)].toProcess)),
          chunk \in ChunkSizes :
        LET processed(r) ==
                /\ queue' = r.q
                /\ slotOf' = Reserved(slotOf, r.q)
                /\ pc' = loopAfter(r)
        IN  processed(processNextFile(queue, entries, chunk))
    /\ UNCHANGED <<readerVars, threadVars>>

Next == CreateSeekerFS \/ ProcessNextFile

Spec == Init /\ [][Next]_vars

(***************************************************************************)
(* The writer with limits: CreateSeekerFS with every CreateFSSettings of   *)
(* small limits, 0 being no limit.                                         *)
(***************************************************************************)
\* The MaxOutputSize values tried: no limit, and a number of header slots
\* with nothing, all but one or all of a payload's bytes after them.
OutputSizes ==
    {0} \cup {k * fileStructSize + j : k \in 1..(MaxReadNodes + 1),
                                      j \in {0, MaxData - 1, MaxData}}

\* The settings tried.
LimitSettings ==
    [MaxDepth : 0..MaxReadNodes, MaxOutputSize : OutputSizes,
     MaxTotalEntries : 0..(MaxReadNodes + 1)]

InitLimits ==
    /\ \E tree \in {t \in Trees : Len(t) <= MaxReadNodes},
          settings \in LimitSettings :
        /\ queue = NewQueue(tree, NewSeekableBuffer, settings)
        /\ slotOf = [i \in Nodes(tree) |-> -1]
    /\ pc = "start"
    /\ fss = <<>>
    /\ files = <<>>
    /\ made = <<>>
    /\ opened = <<>>
    /\ last = NoCall
    /\ th = [t \in Threads |-> Idle]
    /\ holder = [l \in LockIds |-> 0]

SpecLimits == InitLimits /\ [][Next]_vars

(***************************************************************************)
(* The reader as a state machine, one call after the other, on the buffer  *)
(* a successful CreateSeekerFS filled.                                     *)
(***************************************************************************)
\* The source node a path leads to from directory node d, or -1.
NodeAt(tree, d, path) ==
    IF d = -1 \/ ~ValidPath(path) THEN -1
    ELSE IF path = Dot THEN d
    ELSE Walk(tree, d, Split(path))

\* The paths the calls are tried with below directory node d: for every
\* base name of the pool, the path of the child of that name or, when there
\* is none, the path such a child would have; and the same below every
\* child directory.
RECURSIVE PathsBelow(_, _, _)
PathsBelow(tree, d, prefix) ==
    UNION {LET path == IF prefix = <<>> THEN n ELSE prefix \o <<Slash>> \o n
               hit == {j \in Children(tree, d) : tree[j].name = n}
               j == CHOOSE j \in hit : TRUE
           IN  IF hit # {} /\ tree[j].dir
               THEN {path} \cup PathsBelow(tree, j, path)
               ELSE {path}
           : n \in NamePool}

PathPool(tree, d) ==
    IF d = -1 THEN {Dot} ELSE {Dot} \cup PathsBelow(tree, d, <<>>)

\* The lengths of the buffers Read is called with.
ReadLens == {1, MaxData + 1}

\* The caller seeks the buffer back to its start before loading it.
Rewind ==
    /\ pc = "done"
    /\ fss = <<>>
    /\ last.op = "none"
    /\ queue.output.Offset # 0
    /\ queue' = [queue EXCEPT !.output = BufferSeek(@, 0, SeekStart).b]
    /\ UNCHANGED <<pc, slotOf, readerVars, threadVars>>

\* NewSeekerFS(data) on the buffer as it stands.
Load ==
    /\ pc = "done"
    /\ fss = <<>>
    /\ last.op = "none"
    /\ LET loaded(root, r) ==
           /\ queue' = [queue EXCEPT !.output = r.src]
           /\ last' = Returned("Load", 0, 0, <<>>, r.e, FALSE, r.f, <<>>)
           /\ IF r.e = "nil"
              THEN /\ fss' = <<[data |-> 1, topFile |-> r.f, lock |-> 1]>>
                   /\ made' = <<[parent |-> 0, path |-> Dot,
                                 node |-> IF root = {} THEN -1
                                          ELSE CHOOSE i \in root : TRUE]>>
              ELSE UNCHANGED <<fss, made>>
       IN  loaded({i \in DOMAIN slotOf : slotOf[i] = queue.output.Offset},
                  NewSeekerFS(queue.output))
    /\ UNCHANGED <<pc, slotOf, files, opened, threadVars>>

\* SeekerFS.Open(path) on handle h.
Open(h, path) ==
    /\ pc = "done"
    /\ LET resolved(r) ==
           /\ queue' = [queue EXCEPT !.output = r.src]
           /\ last' = Returned("Open", h, IF r.e = "nil" THEN Len(files) + 1
                                          ELSE 0,
                               path, r.e, r.e # "nil", r.f, <<>>)
           /\ IF r.e = "nil"
              THEN /\ files' = Append(files,
                                      [p |-> h, f |-> r.f, readOffset |-> 0])
                   /\ opened' = Append(opened,
                                       [h |-> h, path |-> path, got |-> <<>>,
                                        info |-> NoInfo, t |-> 0,
                                        closed |-> FALSE])
              ELSE UNCHANGED <<files, opened>>
       IN  resolved(resolveFilePath(queue.output, fss[h].topFile, path))
    /\ UNCHANGED <<pc, slotOf, fss, made, threadVars>>

\* SeekerFS.Sub(path) on handle h.
SubFS(h, path) ==
    /\ pc = "done"
    /\ LET returned(r) ==
           /\ queue' = [queue EXCEPT !.output = r.src]
           /\ last' = Returned("Sub", h, 0, path, r.e, r.pathError,
                               r.fs.topFile, <<>>)
           /\ IF r.e = "nil"
              THEN /\ fss' = Append(fss, r.fs)
                   /\ made' = Append(made,
                                     [parent |-> h, path |-> path,
                                      node |-> NodeAt(queue.inputFS,
                                                      made[h].node, path)])
              ELSE UNCHANGED <<fss, made>>
       IN  returned(Sub(queue.output, fss[h], path, Len(fss) + 1))
    /\ UNCHANGED <<pc, slotOf, files, opened, threadVars>>

\* SeekerFSFile.Read(data) on file handle k, with len(data) = len.
ReadFile(k, len) ==
    /\ pc = "done"
    /\ LET returned(r) ==
           /\ queue' = [queue EXCEPT !.output = r.src]
           /\ files' = [files EXCEPT ![k] = r.file]
           /\ opened' = [opened EXCEPT ![k].got = @ \o r.data]
           /\ last' = Returned("Read", files[k].p, k, opened[k].path, r.e,
                               FALSE, files[k].f, r.data)
       IN  returned(Read(queue.output, files[k], len))
    /\ UNCHANGED <<pc, slotOf, fss, made, threadVars>>

\* SeekerFSFile.Stat() on file handle k; the FileInfo returned is kept in
\* the file's history.
StatFile(k) ==
    /\ pc = "done"
    /\ LET returned(r) ==
           /\ queue' = [queue EXCEPT !.output = r.src]
           /\ opened' = [opened EXCEPT ![k].info =
                                          IF r.e = "nil" THEN r.info ELSE @]
           /\ last' = Returned("Stat", files[k].p, k, opened[k].path, r.e,
                               FALSE, files[k].f, <<>>)
       IN  returned(getFileInfo(queue.output, files[k].f))
    /\ UNCHANGED <<pc, slotOf, fss, files, made, threadVars>>

\* The offsets and the whence values Seek is called with, 3 being no whence
\* of package io.
SeekOffsets == {-(MaxData + 1), -1, 1, MaxData + 1}

SeekWhences == {SeekStart, SeekCurrent, SeekEnd, 3}

\* SeekerFSFile.Seek(offset, whence) on file handle k.  The history of the
\* bytes read from the file starts anew.
SeekFile(k, offset, whence) ==
    /\ pc = "done"
    /\ LET returned(r) ==
           /\ r.file.readOffset <= MaxCursor
           /\ files' = [files EXCEPT ![k] = r.file]
           /\ opened' = [opened EXCEPT ![k].got = <<>>]
           /\ last' = [Returned("Seek", files[k].p, k, opened[k].path, r.e,
                                FALSE, files[k].f, <<>>) EXCEPT !.n = r.n]
       IN  returned(Seek(files[k], offset, whence))
    /\ UNCHANGED <<writerVars, fss, made, threadVars>>

\* The values ReadDir is called with.
ReadDirArgs == {-1, 0, 1, MaxReadNodes}

\* SeekerFSFile.ReadDir(n) on file handle k.
ReadDirFile(k, n) ==
    /\ pc = "done"
    /\ LET returned(r) ==
           /\ queue' = [queue EXCEPT !.output = r.src]
           /\ files' = [files EXCEPT ![k] = r.file]
           /\ last' = [Returned("ReadDir", files[k].p, k, opened[k].path,
                                r.e, FALSE, files[k].f, <<>>)
                           EXCEPT !.n = Len(r.infos), !.infos = r.infos]
       IN  returned(ReadDir(queue.output, files[k], n))
    /\ UNCHANGED <<pc, slotOf, fss, made, opened, threadVars>>

\* The calls of one user of the loaded stream.
NextFS ==
    \/ Rewind
    \/ Load
    \/ \E h \in 1..Len(fss) :
        \E path \in PathPool(queue.inputFS, made[h].node) :
            Len(files) < MaxFiles /\ Open(h, path)
    \/ \E h \in 1..Len(fss) :
        \E path \in PathPool(queue.inputFS, made[h].node) :
            Len(fss) <= MaxSub /\ SubFS(h, path)
    \/ \E k \in 1..Len(files), len \in ReadLens : ReadFile(k, len)
    \/ \E k \in 1..Len(files) : StatFile(k)

\* The source trees the reader is tried on.
ReaderTrees == {t \in Trees : Len(t) <= MaxReadNodes}

SpecFS == InitWith(ReaderTrees) /\ [][Next \/ NextFS]_vars

(***************************************************************************)
(* The calls on one SeekerFSFile of the loaded stream: Read, Seek and      *)
(* ReadDir after an Open.                                                  *)
(***************************************************************************)
NextFile ==
    \/ Rewind
    \/ queue.output.Offset = 0 /\ Load
    \/ \E path \in PathPool(queue.inputFS, 0) :
        Len(fss) = 1 /\ Len(files) < MaxFiles /\ Open(1, path)
    \/ \E k \in 1..Len(files), len \in ReadLens : ReadFile(k, len)
    \/ \E k \in 1..Len(files), offset \in SeekOffsets,
          whence \in SeekWhences :
          SeekFile(k, offset, whence)
    \/ \E k \in 1..Len(files), n \in ReadDirArgs : ReadDirFile(k, n)

SpecFile == InitWith(ReaderTrees) /\ [][Next \/ NextFile]_vars

(***************************************************************************)
(* Open and Sub called with paths of every shape: the paths of the source  *)
(* tree, ".", and paths fs.ValidPath refuses.                              *)
(***************************************************************************)
\* Paths that start or end with "/", hold an empty component, or hold a "."
\* or ".." component; the empty path is one empty component.
BadPaths ==
    {<<>>,
     <<Slash>> \o NameA,
     NameA \o <<Slash>>,
     NameA \o <<Slash, Slash>> \o NameA,
     Dot \o <<Slash>> \o NameA,
     NameA \o <<Slash>> \o Dot,
     DotDot,
     NameA \o <<Slash>> \o DotDot}

\* The paths the handle rooted at source node d is called with.
AnyPaths(tree, d) == PathPool(tree, d) \cup BadPaths

NextPath ==
    \/ Rewind
    \/ queue.output.Offset = 0 /\ Load
    \/ \E h \in 1..Len(fss) :
        \E path \in AnyPaths(queue.inputFS, made[h].node) :
            Len(files) < MaxFiles /\ Open(h, path)
    \/ \E h \in 1..Len(fss) :
        \E path \in AnyPaths(queue.inputFS, made[h].node) :
            Len(fss) <= MaxSub /\ SubFS(h, path)

\* The source trees the paths are tried on: those whose names are the two
\* shortest of the pool.
PathTrees ==
    {t \in ReaderTrees : \A i \in 1..Len(t) : t[i].name \in {NameA, NameH}}

SpecPath == InitWith(PathTrees) /\ [][Next \/ NextPath]_vars

(***************************************************************************)
(* NewSeekerFS on sources of any content: a header's bytes, whole or cut   *)
(* short, behind LoadPad or no bytes, the source's offset at the header    *)
(* until the source is rewound.                                            *)
(***************************************************************************)
\* The magics tried: "1337FILE", "1337FILF" and eight zero bytes.
LoadMagics == {MagicBytes, [MagicBytes EXCEPT ![8] = 70], Zeros(8)}

\* The mode words tried.
LoadModes == {ModeOfDir, ModeOfFile}

\* The Size fields tried: 0, 1, 2^31 - 1, 2^31 and 2^32 + 1.
LoadSizes ==
    {PutUint64(0), PutUint64(1), <<255, 255, 255, 127, 0, 0, 0, 0>>,
     <<0, 0, 0, 128, 0, 0, 0, 0>>, <<1, 0, 0, 0, 1, 0, 0, 0>>}

\* The numbers of bytes of the header the source holds.
LoadCuts == {0, fileStructSize - 1, fileStructSize}

\* The bytes of a header with the given magic, mode word and Size field.
RawHeader(magic, mode, size) ==
    magic \o mode \o Zeros(8) \o PutUint64(0) \o PutUint64(0)
    \o PutUint64(0) \o size \o PutUint64(0)

\* A source to load from, and no pack.
InitLoad ==
    /\ \E magic \in LoadMagics, mode \in LoadModes, size \in LoadSizes,
          cut \in LoadCuts, pad \in {0, LoadPad} :
          queue = NewQueue(<<>>,
                           [Data |-> Zeros(pad)
                                     \o Slice(RawHeader(magic, mode, size),
                                              0, cut),
                            Offset |-> pad],
                           DefaultSettings)
    /\ slotOf = [i \in Nodes(<<>>) |-> -1]
    /\ pc = "done"
    /\ fss = <<>>
    /\ files = <<>>
    /\ made = <<>>
    /\ opened = <<>>
    /\ last = NoCall
    /\ th = [t \in Threads |-> Idle]
    /\ holder = [l \in LockIds |-> 0]

NextLoad == Rewind \/ Load

SpecLoad == InitLoad /\ [][NextLoad]_vars

(***************************************************************************)
(* The SeekableBuffer on its own: Seek, Write and Read called in any order *)
(* on a buffer that starts empty.  queue.output is the buffer.             *)
(***************************************************************************)
\* The longest the buffer is let grow.
MaxBuf == 4

\* The offsets Seek is called with.
BufOffsets == {-(MaxBuf + 1), -1, 0, 1, 2}

\* The slices Write is called with.
BufWrites == {<<>>, <<1>>, <<1, 2>>, <<2, 2, 1>>}

\* What a call on the buffer returned: the count or offset n, the bytes read
\* and the error.
BufReturned(op, n, data, e) ==
    [Returned(op, 0, 0, <<>>, e, FALSE, ZeroFile, data) EXCEPT !.n = n]

InitBuffer ==
    /\ queue = NewQueue(<<>>, NewSeekableBuffer, DefaultSettings)
    /\ slotOf = [i \in Nodes(<<>>) |-> -1]
    /\ pc = "done"
    /\ fss = <<>>
    /\ files = <<>>
    /\ made = <<>>
    /\ opened = <<>>
    /\ last = NoCall
    /\ th = [t \in Threads |-> Idle]
    /\ holder = [l \in LockIds |-> 0]

\* b.Seek(offset, whence).
SeekBuffer(offset, whence) ==
    /\ LET sought(r) ==
           /\ Len(r.b.Data) <= MaxBuf
           /\ queue' = [queue EXCEPT !.output = r.b]
           /\ last' = BufReturned("Buffer.Seek", r.n, <<>>,
                                  IF r.e THEN "other" ELSE "nil")
       IN  sought(BufferSeek(queue.output, offset, whence))
    /\ UNCHANGED <<pc, slotOf, fss, files, made, opened, threadVars>>

\* b.Write(data).
WriteBuffer(data) ==
    /\ queue.output.Offset + Len(data) <= MaxBuf
    /\ queue' = [queue EXCEPT !.output = BufferWrite(@, data)]
    /\ last' = BufReturned("Buffer.Write", Len(data), <<>>, "nil")
    /\ UNCHANGED <<pc, slotOf, fss, files, made, opened, threadVars>>

\* b.Read(dst) with len(dst) = n.
ReadBuffer(n) ==
    /\ LET read(r) ==
           /\ queue' = [queue EXCEPT !.output = r.b]
           /\ last' = BufReturned("Buffer.Read", Len(r.data), r.data,
                                  IF r.eof THEN "EOF" ELSE "nil")
       IN  read(BufferRead(queue.output, n))
    /\ UNCHANGED <<pc, slotOf, fss, files, made, opened, threadVars>>

NextBuffer ==
    \/ \E offset \in BufOffsets, whence \in SeekWhences :
          SeekBuffer(offset, whence)
    \/ \E data \in BufWrites : WriteBuffer(data)
    \/ \E n \in {1, 2} : ReadBuffer(n)

SpecBuffer == InitBuffer /\ [][NextBuffer]_vars

(***************************************************************************)
(* compareFileName called on the headers of a packed stream with names of  *)
(* every length.                                                           *)
(***************************************************************************)
\* The names compared with: those of the trees and a one-byte name that
\* sorts after them.
CompareNames == NamePool \cup {<<98>>}

\* compareFileName(f, p, toCheck) with f the header stored for source node i.
CompareName(i, toCheck) ==
    /\ pc = "done"
    /\ LET compared(f, c) ==
           /\ queue' = [queue EXCEPT !.output = c.src]
           /\ last' = [Returned("compareFileName", 0, i, toCheck, c.e, FALSE,
                                f, <<>>)
                       EXCEPT !.n = c.r]
           entry(f) == compared(f, compareFileName(queue.output, f, toCheck))
       IN  entry(DecodeFile(Slice(queue.output.Data, slotOf[i],
                                  slotOf[i] + fileStructSize)))
    /\ UNCHANGED <<pc, slotOf, fss, files, made, opened, threadVars>>

NextCompare ==
    \E i \in 1..Len(queue.inputFS), toCheck \in CompareNames :
        CompareName(i, toCheck)

SpecCompare == InitWith(ReaderTrees) /\ [][Next \/ NextCompare]_vars

(***************************************************************************)
(* The reader called by several threads.  A call runs up to its next fetch *)
(* from the source in one step; a fetch is the steps the code makes on the *)
(* shared mutex and source: Lock (for the fetches made under the mutex),   *)
(* Seek, the read, Unlock.  th[t] holds the locals of thread t's call.     *)
(***************************************************************************)
\* The call goes on to fetch n bytes at location.
request(c, kind, locked, location, n) ==
    [c EXCEPT !.pc = IF locked THEN "acquire" ELSE "seek",
              !.io = [kind |-> kind, locked |-> locked,
                      location |-> location, n |-> n],
              !.buf = <<>>, !.ioe = "nil"]

\* The call returns with error e.
return(c, e) == [c EXCEPT !.pc = "return", !.e = e]

\* getDirEntry(c.cur, p, currentIndex) up to its fetch.
probeAt(c, currentIndex) ==
    IF ~IsDir(c.cur) \/ currentIndex < 0 \/ currentIndex >= c.cur.Size
    THEN return(c, "other")
    ELSE request([c EXCEPT !.currentIndex = currentIndex], "entry", TRUE,
                 dirEntryOffset(c.cur, currentIndex), fileStructSize)

\* The head of getNamedDirEntry's loop.
probeNext(c) ==
    IF ~(c.beginIndex <= c.endIndex) THEN return(c, "ErrNotExist")
    ELSE probeAt(c, searchMid(c.beginIndex, c.endIndex))

\* resolveFilePath's loop at its next component: getNamedDirEntry up to the
\* first probe, or the return of the file resolved.
lookup(c) ==
    IF c.comps = <<>> THEN return([c EXCEPT !.f = c.cur], "nil")
    ELSE IF ~IsDir(c.cur) THEN return(c, "other")
    ELSE IF c.cur.Size = 0 THEN return(c, "ErrNotExist")
    ELSE probeNext([c EXCEPT !.beginIndex = searchBegin(c.cur),
                             !.endIndex = searchEnd(c.cur)])

\* getNamedDirEntry after compareFileName returned compareResult.
compared(c, compareResult) ==
    LET narrowed(next) ==
            probeNext([c EXCEPT !.beginIndex = next.beginIndex,
                                !.endIndex = next.endIndex])
    IN  IF compareResult = 0
        THEN lookup([c EXCEPT !.cur = c.entry, !.comps = Tail(c.comps)])
        ELSE narrowed(narrow(c.beginIndex, c.endIndex, c.currentIndex,
                             compareResult))

\* compareFileName(c.entry, p, name) up to getFileName's fetch.
compareStart(c) ==
    LET short(s) ==
            IF s.decided THEN compared(c, s.r)
            ELSE IF c.entry.NameSize <= 8
            THEN compared(c, stringsCompare(
                                 Slice(c.entry.ShortName, 0, c.entry.NameSize),
                                 Head(c.comps)))
            ELSE request(c, "name", TRUE, c.entry.NameOffset,
                         c.entry.NameSize)
    IN  short(shortCompare(c.entry, Head(c.comps)))

\* getDirEntry after its fetch, and on into compareFileName.
entryRead(c) ==
    IF c.ioe # "nil" THEN return(c, "other")
    ELSE compareStart([c EXCEPT !.entry = DecodeFile(c.buf)])

\* compareFileName after getFileName's fetch.
nameRead(c) ==
    IF c.ioe # "nil" THEN return(c, "other")
    ELSE compared(c, stringsCompare(c.buf, Head(c.comps)))

\* resolveFilePath(topDir, p, path) up to its first fetch.
resolveStart(c, topDir, path) ==
    IF ~ValidPath(path) THEN return(c, "ErrInvalid")
    ELSE IF path = Dot THEN return([c EXCEPT !.f = topDir], "nil")
    ELSE lookup([c EXCEPT !.cur = topDir, !.comps = Split(path)])

\* SeekerFSFile.Read(data), len(data) = len, up to its fetch.
readStart(c, file, len) ==
    IF file.f = NilFile THEN return(c, "panic")
    ELSE IF IsDir(file.f) THEN return(c, "other")
    ELSE IF file.readOffset >= file.f.Size THEN return(c, "EOF")
    ELSE request(c, "payload", FALSE, file.f.DataOffset + file.readOffset,
                 Min(len, file.f.Size - file.readOffset))

\* SeekerFSFile.Read after its fetch.
payloadRead(c) ==
    IF c.ioe # "nil" THEN return([c EXCEPT !.buf = <<>>], "other")
    ELSE return(c, "nil")

\* SeekerFSFile.ReadDir(n) up to its fetch of the child block; endIndex
\* holds endEntry.
readDirStart(c, file, n) ==
    LET block(startEntry, endEntry) ==
            request([c EXCEPT !.endIndex = endEntry], "block", TRUE,
                    file.f.DataOffset + startEntry * fileStructSize,
                    (endEntry - startEntry) * fileStructSize)
    IN  IF file.f = NilFile THEN return(c, "panic")
        ELSE IF ~IsDir(file.f) THEN return(c, "other")
        ELSE IF file.readOffset >= file.f.Size THEN return(c, "EOF")
        ELSE block(file.readOffset,
                   IF n <= 0 THEN file.f.Size
                   ELSE Min(file.readOffset + n, file.f.Size))

\* ReadDir's loop over rawEntries: getFileInfo of the next entry up to
\* getFileName's fetch, or the return when all are done.
RECURSIVE infoNext(_)
infoNext(c) ==
    LET next(entry) ==
            IF entry.NameSize <= 8
            THEN infoNext([c EXCEPT !.names =
                             Append(@, Slice(entry.ShortName, 0,
                                             entry.NameSize))])
            ELSE request(c, "name", TRUE, entry.NameOffset, entry.NameSize)
    IN  IF Len(c.names) = Len(c.raw) THEN return(c, "nil")
        ELSE next(c.raw[Len(c.names) + 1])

\* ReadDir after its fetch of the child block.
blockRead(c) ==
    IF c.ioe # "nil" THEN return(c, "other")
    ELSE infoNext([c EXCEPT
             !.raw = [i \in 1..(Len(c.buf) \div fileStructSize) |->
                         DecodeFile(Slice(c.buf, (i - 1) * fileStructSize,
                                          i * fileStructSize))],
             !.names = <<>>])

\* ReadDir after getFileName's fetch for an entry.
infoNameRead(c) ==
    IF c.ioe # "nil" THEN return(c, "other")
    ELSE infoNext([c EXCEPT !.names = Append(@, c.buf)])

\* SeekerFSFile.Stat up to getFileName's fetch.
statStart(c, file) ==
    IF file.f = NilFile THEN return(c, "panic")
    ELSE IF file.f.NameSize <= 8 THEN return(c, "nil")
    ELSE request(c, "name", TRUE, file.f.NameOffset, file.f.NameSize)

\* SeekerFSFile.Stat after getFileName's fetch.
statRead(c) == return(c, IF c.ioe # "nil" THEN "other" ELSE "nil")

\* The call of thread record c after the fetch it waited for.
resume(c) ==
    IF c.op = "Read" THEN payloadRead(c)
    ELSE IF c.op = "Stat" THEN statRead(c)
    ELSE IF c.op = "ReadDir"
    THEN (IF c.io.kind = "block" THEN blockRead(c) ELSE infoNameRead(c))
    ELSE IF c.io.kind = "entry" THEN entryRead(c)
    ELSE nameRead(c)

\* The mutex of the SeekerFS the call of c is made on.
lockOf(c) == fss[c.h].lock

\* The calls in flight that will add a SeekerFS.
Subbing == {t \in Threads : th[t].op = "Sub"}

\* Thread t's call has run to c: it waits for a fetch, or it returns and
\* its result is put in place.  (What a thread's Read and ReadDir return
\* is in c.buf and c.names; the history in opened is kept for the calls of
\* a single caller only.)
Settle(t, c) ==
    /\ th' = [th EXCEPT ![t] = IF c.pc # "return" THEN c ELSE Idle]
    /\ IF c.pc = "return" /\ c.op = "Open" /\ c.e = "nil"
       THEN /\ files' = Append(files, [p |-> c.h, f |-> c.f, readOffset |-> 0])
            /\ opened' = Append(opened, [h |-> c.h, path |-> c.path,
                                         got |-> <<>>, info |-> NoInfo,
                                         t |-> t, closed |-> FALSE])
            /\ UNCHANGED <<fss, made>>
       ELSE IF c.pc = "return" /\ c.op = "Sub" /\ c.e = "nil" /\ IsDir(c.f)
       THEN /\ fss' = Append(fss, newSubFS(fss[c.h], c.f, Len(fss) + 1))
            /\ made' = Append(made, [parent |-> c.h, path |-> c.path,
                                     node |-> NodeAt(queue.inputFS,
                                                     made[c.h].node, c.path)])
            /\ UNCHANGED <<files, opened>>
       ELSE IF c.pc = "return" /\ c.op = "Read" /\ c.e = "nil"
       THEN /\ files' = [files EXCEPT ![c.k].readOffset = @ + c.io.n]
            /\ UNCHANGED <<fss, made, opened>>
       ELSE IF c.pc = "return" /\ c.op = "ReadDir" /\ c.e = "nil"
       THEN /\ files' = [files EXCEPT ![c.k].readOffset = c.endIndex]
            /\ UNCHANGED <<fss, made, opened>>
       ELSE UNCHANGED <<fss, files, made, opened>>

\* Thread t calls Open(path) on SeekerFS h; a thread keeps one file handle.
StartOpen(t, h, path) ==
    /\ pc = "done"
    /\ th[t].pc = "idle"
    /\ \A k \in 1..Len(files) : opened[k].t # t
    /\ Settle(t, resolveStart([Idle EXCEPT !.op = "Open", !.h = h,
                                                  !.path = path],
                              fss[h].topFile, path))
    /\ UNCHANGED <<writerVars, last, holder>>

\* Thread t calls Sub(path) on SeekerFS h.
StartSub(t, h, path) ==
    /\ pc = "done"
    /\ th[t].pc = "idle"
    /\ Len(fss) + Cardinality(Subbing) <= MaxSubMT
    /\ Settle(t, resolveStart([Idle EXCEPT !.op = "Sub", !.h = h,
                                                  !.path = path],
                              fss[h].topFile, path))
    /\ UNCHANGED <<writerVars, last, holder>>

\* What is known of the last call once the call of c has run to its first
\* fetch or its return: a call that panicked is the last call.
Panicked(c) ==
    IF c.pc = "return" /\ c.e = "panic"
    THEN Returned(c.op, c.h, c.k, <<>>, "panic", FALSE, ZeroFile, <<>>)
    ELSE last

\* Thread t calls Read on its file handle k with a buffer of length len.
StartRead(t, k, len) ==
    /\ pc = "done"
    /\ th[t].pc = "idle"
    /\ opened[k].t = t
    /\ LET started(c) == Settle(t, c) /\ last' = Panicked(c)
       IN  started(readStart([Idle EXCEPT !.op = "Read", !.h = files[k].p,
                                                 !.k = k],
                             files[k], len))
    /\ UNCHANGED <<writerVars, holder>>

\* Thread t calls ReadDir(n) on its file handle k.
StartReadDir(t, k, n) ==
    /\ pc = "done"
    /\ th[t].pc = "idle"
    /\ opened[k].t = t
    /\ LET started(c) == Settle(t, c) /\ last' = Panicked(c)
       IN  started(readDirStart([Idle EXCEPT !.op = "ReadDir",
                                                    !.h = files[k].p, !.k = k],
                                files[k], n))
    /\ UNCHANGED <<writerVars, holder>>

\* Thread t calls Stat on its file handle k.
StartStat(t, k) ==
    /\ pc = "done"
    /\ th[t].pc = "idle"
    /\ opened[k].t = t
    /\ LET started(c) == Settle(t, c) /\ last' = Panicked(c)
       IN  started(statStart([Idle EXCEPT !.op = "Stat", !.h = files[k].p,
                                                 !.k = k],
                             files[k]))
    /\ UNCHANGED <<writerVars, holder>>

\* Thread t calls Close on its file handle k.
CloseFile(t, k) ==
    /\ pc = "done"
    /\ th[t].pc = "idle"
    /\ opened[k].t = t
    /\ files' = [files EXCEPT ![k] = Close(files[k])]
    /\ opened' = [opened EXCEPT ![k].closed = TRUE]
    /\ last' = Returned("Close", files[k].p, k, opened[k].path, "nil", FALSE,
                        ZeroFile, <<>>)
    /\ UNCHANGED <<writerVars, fss, made, threadVars>>

\* acquireLock: sync.Mutex.Lock returns once no thread holds the mutex.
AcquireLock(t) ==
    /\ th[t].pc = "acquire"
    /\ holder[lockOf(th[t])] = 0
    /\ holder' = [holder EXCEPT ![lockOf(th[t])] = t]
    /\ th' = [th EXCEPT ![t].pc = "seek"]
    /\ UNCHANGED <<writerVars, readerVars>>

\* SeekerFS.seek: the source's Seek to the fetch's location.  A fetch at a
\* location beyond MaxStream, which a header read from the wrong place can
\* ask for, is not followed.
SeekSource(t) ==
    /\ th[t].pc = "seek"
    /\ th[t].io.location <= MaxStream
    /\ LET sought(s) ==
               /\ queue' = [queue EXCEPT !.output = s.b]
               /\ th' = [th EXCEPT
                            ![t].pc = IF ~s.e THEN "read"
                                      ELSE IF th[t].io.locked THEN "release"
                                      ELSE "resume",
                            ![t].ioe = IF s.e THEN "other" ELSE "nil"]
       IN  sought(seek(queue.output, th[t].io.location))
    /\ UNCHANGED <<pc, slotOf, readerVars, holder>>

\* io.ReadFull (binary.Read for headers) from the source, wherever its
\* offset is now.
ReadSource(t) ==
    /\ th[t].pc = "read"
    /\ LET read(r) ==
               /\ queue' = [queue EXCEPT !.output = r.src]
               /\ th' = [th EXCEPT
                            ![t].pc = IF th[t].io.locked THEN "release"
                                      ELSE "resume",
                            ![t].buf = r.data,
                            ![t].ioe = r.e]
       IN  read(ReadFull(queue.output, th[t].io.n))
    /\ UNCHANGED <<pc, slotOf, readerVars, holder>>

\* A release that is put off to the end of the call: the mutex stays with
\* the thread while its call has another fetch to make.
releaseLock_AtReturn(h, c) ==
    IF resume(c).pc = "return" THEN [h EXCEPT ![lockOf(c)] = 0] ELSE h

\* releaseLock after the fetch of call c: the holders h of the mutexes with
\* the mutex of c's SeekerFS free.
releaseLock(h, c) == [h EXCEPT ![lockOf(c)] = 0]

\* releaseLock, and the call on to its next fetch or its return.
ReleaseLock(t) ==
    /\ th[t].pc = "release"
    /\ holder' = releaseLock(holder, th[t])
    /\ Settle(t, resume(th[t]))
    /\ UNCHANGED <<writerVars, last>>

\* After a fetch made without the mutex: the call on to its return.
Resume(t) ==
    /\ th[t].pc = "resume"
    /\ Settle(t, resume(th[t]))
    /\ UNCHANGED <<writerVars, last, holder>>

\* The lengths of the buffers the threads call Read with.
MTReadLens == {MaxData - 2}

\* The values ReadDir is called with: all entries.
ReadDirCounts == {0}

\* The paths the threads' calls are tried with below directory node d: the
\* paths of the nodes, and the names that take compareFileName to the full
\* name of a longer entry.
MTPaths(tree, d) ==
    {path \in PathPool(tree, d) \ {Dot} :
        \/ NodeAt(tree, d, path) >= 0
        \/ \E i \in 1..Len(tree) :
            /\ Len(tree[i].name) > 8
            /\ Split(path)[Len(Split(path))] = Slice(tree[i].name, 0, 8)}

NextMT ==
    \/ Rewind
    \/ queue.output.Offset = 0 /\ Load
    \/ \E t \in Threads :
        /\ th[t].pc = "idle"
        /\ \E h \in 1..Len(fss) :
            \E path \in MTPaths(queue.inputFS, made[h].node) :
                StartOpen(t, h, path)
    \/ \E t \in Threads :
        /\ th[t].pc = "idle"
        /\ \E h \in 1..Len(fss) :
            \E path \in MTPaths(queue.inputFS, made[h].node) :
                StartSub(t, h, path)
    \/ \E t \in Threads, k \in 1..Len(files), len \in MTReadLens :
        StartRead(t, k, len)
    \/ \E t \in Threads, k \in 1..Len(files), n \in ReadDirCounts :
        StartReadDir(t, k, n)
    \/ \E t \in Threads : AcquireLock(t)
    \/ \E t \in Threads : SeekSource(t)
    \/ \E t \in Threads : ReadSource(t)
    \/ \E t \in Threads : ReleaseLock(t)
    \/ \E t \in Threads : Resume(t)

\* The source trees the threads are tried on: a chain of directories named
\* "a" from the root down to a last entry, which is a directory or a regular
\* file and has a short name or a long one.
MTTrees ==
    {t \in ReaderTrees :
        /\ Len(t) = MaxReadNodes
        /\ \A i \in 1..Len(t) : t[i].parent = i - 1
        /\ \A i \in 1..(Len(t) - 1) : t[i].dir /\ t[i].name = NameA
        /\ t[Len(t)].name \in {NameA, NameI}
        /\ t[Len(t)].dir \/ t[Len(t)].size > 0
        /\ t[Len(t)].dir => t[Len(t)].name = NameA}

SpecMT == InitWith(MTTrees) /\ [][Next \/ NextMT]_vars

(***************************************************************************)
(* The threads' calls on the stream's root SeekerFS, with the scheduling   *)
(* that a wait for the mutex depends on: a thread that can take a step of  *)
(* its call takes it, and a thread that waits for a mutex that is free     *)
(* again and again gets it (sync.Mutex hands a starving waiter the mutex). *)
(***************************************************************************)
NextLock ==
    \/ Rewind
    \/ queue.output.Offset = 0 /\ Load
    \/ \E t \in Threads :
        /\ th[t].pc = "idle"
        /\ \E path \in MTPaths(queue.inputFS, 0) :
               Len(fss) = 1 /\ StartOpen(t, 1, path)
    \/ \E t \in Threads, k \in 1..Len(files), len \in MTReadLens :
        StartRead(t, k, len)
    \/ \E t \in Threads, k \in 1..Len(files), n \in ReadDirCounts :
        StartReadDir(t, k, n)
    \/ \E t \in Threads : AcquireLock(t)
    \/ \E t \in Threads : SeekSource(t)
    \/ \E t \in Threads : ReadSource(t)
    \/ \E t \in Threads : ReleaseLock(t)
    \/ \E t \in Threads : Resume(t)

\* A step of thread t's call past its Lock.
StepOf(t) == SeekSource(t) \/ ReadSource(t) \/ ReleaseLock(t) \/ Resume(t)

\* Thread 1 is the thread whose wait is followed, the others the ones it
\* waits for: each of them goes on with its call, and the mutex, free again
\* and again, is handed to thread 1.
FairLock ==
    /\ SF_vars(AcquireLock(1))
    /\ \A t \in Threads \ {1} : WF_vars(StepOf(t))

SpecLock == InitWith(MTTrees) /\ [][Next \/ NextLock]_vars /\ FairLock

(***************************************************************************)
(* The threads' calls on file handles that get closed: each thread opens   *)
(* one SeekerFSFile on the root SeekerFS, calls Read, ReadDir, Stat and    *)
(* Seek on it, closes it, and goes on calling.                             *)
(***************************************************************************)
NextClose ==
    \/ Rewind
    \/ queue.output.Offset = 0 /\ Load
    \/ \E t \in Threads :
        /\ th[t].pc = "idle"
        /\ \E path \in MTPaths(queue.inputFS, 0) :
               Len(fss) = 1 /\ StartOpen(t, 1, path)
    \/ \E t \in Threads, k \in 1..Len(files), len \in MTReadLens :
        StartRead(t, k, len)
    \/ \E t \in Threads, k \in 1..Len(files), n \in ReadDirCounts :
        StartReadDir(t, k, n)
    \/ \E t \in Threads, k \in 1..Len(files) : StartStat(t, k)
    \/ \E t \in Threads, k \in 1..Len(files) :
        th[t].pc = "idle" /\ opened[k].t = t /\ SeekFile(k, 1, SeekStart)
    \/ \E t \in Threads, k \in 1..Len(files) : CloseFile(t, k)
    \/ \E t \in Threads : AcquireLock(t)
    \/ \E t \in Threads : SeekSource(t)
    \/ \E t \in Threads : ReadSource(t)
    \/ \E t \in Threads : ReleaseLock(t)
    \/ \E t \in Threads : Resume(t)

SpecClose == InitWith(MTTrees) /\ [][Next \/ NextClose]_vars

(***************************************************************************)
(* One thread's Open calls step by step, on every tree and path of the     *)
(* sequential reader: the probes of getNamedDirEntry's search one by one.  *)
(***************************************************************************)
NextSearch ==
    \/ Rewind
    \/ queue.output.Offset = 0 /\ Load
    \/ \E h \in 1..Len(fss) :
        \E path \in PathPool(queue.inputFS, made[h].node) :
            StartOpen(1, h, path)
    \/ AcquireLock(1)
    \/ SeekSource(1)
    \/ ReadSource(1)
    \/ ReleaseLock(1)

SpecSearch == InitWith(ReaderTrees) /\ [][Next \/ NextSearch]_vars

(***************************************************************************)
(* Reading the packed stream back, for the statements about its layout.    *)
(***************************************************************************)
\* The header stored in the fileStructSize bytes at offset off.
HeaderAt(data, off) == DecodeFile(Slice(data, off, off + fileStructSize))

\* The full base name a header stands for: in ShortName, or out of line.
NameOnStream(data, h) ==
    IF h.NameSize <= 8 THEN Slice(h.ShortName, 0, h.NameSize)
    ELSE Slice(data, h.NameOffset, h.NameOffset + h.NameSize)

RECURSIVE SumOver(_, _)
SumOver(S, f) ==
    IF S = {} THEN 0
    ELSE LET x == CHOOSE y \in S : TRUE IN f[x] + SumOver(S \ {x}, f)

\* The bytes of the names the writer stores out of line for a tree.
LongNameBytes(tree) ==
    SumOver(1..Len(tree),
            [i \in 1..Len(tree) |->
                IF Len(tree[i].name) > 8 THEN Len(tree[i].name) ELSE 0])

Packed == pc = "done"

(***************************************************************************)
(* C8.  After a successful pack, the header slots of a directory's         *)
(* children are the Size consecutive slots starting at its DataOffset, and *)
(* the base names in them are strictly ascending.                          *)
(***************************************************************************)
C8_ChildrenContiguousSorted ==
    Packed =>
        \A d \in Nodes(queue.inputFS) :
            LET tree == queue.inputFS
                data == queue.output.Data
                kids == Children(tree, d)
                n == Cardinality(kids)
                h == HeaderAt(data, slotOf[d])
                slot(i) == h.DataOffset + i * fileStructSize
            IN  (NodeIsDir(tree, d) /\ n > 0) =>
                    /\ h.Size = n
                    /\ {slotOf[k] : k \in kids} = {slot(i) : i \in 0..(n - 1)}
                    /\ \A k \in kids :
                        NameOnStream(data, HeaderAt(data, slotOf[k]))
                            = tree[k].name
                    /\ \A i \in 0..(n - 2) :
                        stringsCompare(
                            NameOnStream(data, HeaderAt(data, slot(i))),
                            NameOnStream(data, HeaderAt(data, slot(i + 1)))) < 0

\* A packed tree in which a directory has two children, one of them a
\* directory with a child of its own.
C8_Witness ==
    /\ Packed
    /\ \E d, k1, k2, g \in Nodes(queue.inputFS) :
        /\ k1 # k2
        /\ {k1, k2} \subseteq Children(queue.inputFS, d)
        /\ g \in Children(queue.inputFS, k1)

(***************************************************************************)
(* C9.  After a successful pack, an entry whose base name has at most 8    *)
(* bytes has NameOffset 0 and the name zero-padded in ShortName, and no    *)
(* name bytes of it are in the stream; an entry with a longer name has the *)
(* first 8 bytes in ShortName and the full name at NameOffset.             *)
(***************************************************************************)
C9_NamesInHeaders ==
    Packed =>
        LET tree == queue.inputFS
            data == queue.output.Data
        IN  /\ \A i \in Nodes(tree) :
                LET h == HeaderAt(data, slotOf[i])
                    name == Stat(tree, i).Name
                IN  /\ h.NameSize = Len(name)
                    /\ Len(name) <= 8 =>
                        /\ h.NameOffset = 0
                        /\ h.ShortName = name \o Zeros(8 - Len(name))
                    /\ Len(name) > 8 =>
                        /\ h.ShortName = Slice(name, 0, 8)
                        /\ Slice(data, h.NameOffset, h.NameOffset + h.NameSize)
                            = name
            \* With no payload in the tree, the stream holds the header slots
            \* and the long names and nothing else.
            /\ (\A i \in 1..Len(tree) : tree[i].size = 0) =>
                Len(data) = fileStructSize * (Len(tree) + 1)
                            + LongNameBytes(tree)

\* A packed tree with a name of at most 8 bytes and a longer one.
C9_Witness ==
    /\ Packed
    /\ \E i, j \in 1..Len(queue.inputFS) :
        /\ Len(queue.inputFS[i].name) = 8
        /\ Len(queue.inputFS[j].name) > 8
        /\ queue.inputFS[j].size > 0

(***************************************************************************)
(* C10.  After a successful pack into an empty sink, the fileStructSize    *)
(* bytes at offset 0 are the root's header: the magic, the directory bit,  *)
(* Size equal to the root's child count, and Validate passes.              *)
(***************************************************************************)
C10_RootHeaderAtZero ==
    Packed =>
        /\ Len(queue.output.Data) >= fileStructSize
        /\ slotOf[0] = 0
        /\ LET h == HeaderAt(queue.output.Data, 0)
           IN  /\ h.Magic = MagicBytes
               /\ IsDir(h)
               /\ h.Size = Cardinality(Children(queue.inputFS, 0))
               /\ Validate(h)

\* A packed tree whose root has children.
C10_Witness == Packed /\ Cardinality(Children(queue.inputFS, 0)) >= 2

(***************************************************************************)
(* The loaded stream against the source tree.                              *)
(***************************************************************************)
\* The source node SeekerFS h is rooted at, and the one file handle k was
\* opened for; -1 when the tree has none.
RootOf(h) == made[h].node

NodeOf(k) == NodeAt(queue.inputFS, RootOf(opened[k].h), opened[k].path)

\* The node the last call's path names from the root of its SeekerFS.
LastNode == NodeAt(queue.inputFS, RootOf(last.h), last.path)

\* The header the writer stored for node i.
HeaderOf(i) == HeaderAt(queue.output.Data, slotOf[i])

\* The stream was loaded from its start, so SeekerFS 1 is rooted at the
\* tree's root.
LoadedAtRoot == fss # <<>> /\ RootOf(1) = 0

(***************************************************************************)
(* C1.  After packing a tree with no limits and loading the stream from    *)
(* its start, Open on the loaded handle succeeds for every path of the     *)
(* tree, Read never fails and has returned exactly the source's bytes when *)
(* it reports end-of-input, and Stat reports the source's Size (of a       *)
(* regular file), Mode and ModTime.                                        *)
(***************************************************************************)
C1_PackLoadRoundTrip ==
    LoadedAtRoot =>
        /\ (last.op = "Open" /\ last.h = 1 /\ LastNode >= 0) =>
            /\ last.e = "nil"
            /\ last.f = HeaderOf(LastNode)
        /\ (last.op = "Read" /\ last.h = 1 /\ NodeOf(last.k) >= 0
                /\ ~NodeIsDir(queue.inputFS, NodeOf(last.k))) =>
            /\ last.e \in {"nil", "EOF"}
            /\ last.e = "EOF" =>
                opened[last.k].got = FileData(queue.inputFS, NodeOf(last.k))
        /\ (last.op = "Stat" /\ last.h = 1 /\ NodeOf(last.k) >= 0) =>
            LET info == opened[last.k].info
                stat == Stat(queue.inputFS, NodeOf(last.k))
            IN  /\ last.e = "nil"
                /\ ~stat.IsDir => info.FileSize = stat.Size
                /\ info.FileMode = stat.Mode
                /\ info.FileModTime = stat.ModTime

(***************************************************************************)
(* C2.  Open of a path that names an entry of the packed tree, whatever    *)
(* the entry's index in its directory and the length of its name, resolves *)
(* to the header the writer stored for that entry.  (The child headers of  *)
(* every packed directory are contiguous and ascending, by C8.)            *)
(***************************************************************************)
C2_LookupFindsEveryChild ==
    (last.op = "Open" /\ RootOf(last.h) >= 0 /\ LastNode >= 0) =>
        /\ last.e = "nil"
        /\ files[last.k].f = HeaderOf(LastNode)

(***************************************************************************)
(* C3.  Open of a valid path that names no entry of the packed tree,       *)
(* because a component is missing from the directory it is looked up in,   *)
(* fails with a PathError that wraps fs.ErrNotExist.                       *)
(***************************************************************************)
C3_MissingIsNotExist ==
    (last.op = "Open" /\ RootOf(last.h) >= 0 /\ ValidPath(last.path)
            /\ LastNode = -1) =>
        /\ last.pathError
        /\ last.e = "ErrNotExist"

(***************************************************************************)
(* C7.  When Open(q) on the SeekerFS that Sub(p) returned and              *)
(* Open(p + "/" + q) on the SeekerFS that Sub was called on both resolve,  *)
(* they resolve to the same header, and what has been read from the first  *)
(* is what Read returns from the second; Sub of a path that names a        *)
(* regular file fails.                                                     *)
(***************************************************************************)
\* Open(p + "/" + q) on the parent of the SeekerFS file handle k was opened
\* on, p the path that SeekerFS was made with and q the path k was opened
\* with: the result of resolveFilePath.
ViaParent(k) ==
    LET h == opened[k].h
    IN  resolveFilePath(queue.output, fss[made[h].parent].topFile,
                        made[h].path \o <<Slash>> \o opened[k].path)

C7_SubOpenIsOpenJoined ==
    /\ \A k \in 1..Len(files) :
        (made[opened[k].h].parent # 0 /\ ViaParent(k).e = "nil") =>
            LET direct == [p |-> made[opened[k].h].parent,
                           f |-> ViaParent(k).f, readOffset |-> 0]
            IN  /\ files[k].f = direct.f
                /\ opened[k].got
                    = Read(queue.output, direct, files[k].readOffset).data
    /\ (last.op = "Sub" /\ LastNode >= 0
            /\ ~NodeIsDir(queue.inputFS, LastNode)) =>
        last.e # "nil"

\* A regular file opened through a SeekerFS made by Sub, with payload read
\* from it, that the joined path resolves from the parent as well.
C7_Witness ==
    \E k \in 1..Len(files) :
        /\ made[opened[k].h].parent # 0
        /\ made[opened[k].h].path # Dot
        /\ opened[k].path # Dot
        /\ ViaParent(k).e = "nil"
        /\ ~IsDir(files[k].f)
        /\ opened[k].got # <<>>

(***************************************************************************)
(* The reader under several threads.                                       *)
(***************************************************************************)
\* Thread t is between the Seek and the read of a fetch from the source.
InPair(t) == th[t].pc = "read"

\* Thread t is in a fetch it makes under the mutex: it has acquired the
\* mutex and not yet released it.
InLockedFetch(t) ==
    th[t].io.locked /\ th[t].pc \in {"seek", "read", "release"}

\* The bytes of the file of handle k at its cursor, n of them, as the source
\* holds them.
OwnBytes(k, n) ==
    Slice(queue.output.Data, files[k].f.DataOffset + files[k].readOffset,
          files[k].f.DataOffset + files[k].readOffset + n)

\* The SeekerFS h was made by Sub.
IsSub(h) == made[h].parent # 0

\* C4: every reader operation that seeks and reads the shared source holds
\* the mutex of its SeekerFS for the whole seek+read pair: a thread that has
\* made the Seek of a fetch and not yet its read holds the mutex.
C4_FetchHoldsMutex ==
    \A t \in Threads : InPair(t) => holder[lockOf(th[t])] = t

\* C5: when all threads are in Read calls on distinct file handles of the
\* same packed FS, then however their seeks and reads interleave, the fetch
\* of each Read ends without error and with the bytes of its own file at its
\* own cursor.
C5_ConcurrentReadsOwnBytes ==
    (/\ \A t \in Threads : th[t].op = "Read"
     /\ \A t, u \in Threads : t # u => th[t].k # th[u].k)
    => \A t \in Threads :
           th[t].pc = "resume"
           => /\ th[t].ioe = "nil"
              /\ th[t].buf = OwnBytes(th[t].k, th[t].io.n)

\* C6: a SeekerFS returned by Sub, whatever SeekerFS it was derived from,
\* has the mutex and the source of the SeekerFS it was derived from, and no
\* two threads are in a fetch made under the mutex at the same time.
C6_SubSharesMutex ==
    /\ \A h \in 1..Len(fss) :
           IsSub(h) => /\ fss[h].lock = fss[made[h].parent].lock
                       /\ fss[h].data = fss[made[h].parent].data
    /\ \A t, u \in Threads :
           t # u => ~(InLockedFetch(t) /\ InLockedFetch(u))

\* A SeekerFS made by Sub from one made by Sub exists; a thread is between
\* the Seek and the read of a locked fetch it makes through a SeekerFS made
\* by Sub, and another thread waits for the mutex in a call on the SeekerFS
\* that one was derived from.
C6_Witness ==
    /\ \E h \in 1..Len(fss) : IsSub(h) /\ IsSub(made[h].parent)
    /\ \E t, u \in Threads :
           /\ t # u
           /\ InLockedFetch(t) /\ InPair(t)
           /\ IsSub(th[t].h)
           /\ th[u].pc = "acquire"
           /\ th[u].h = made[th[t].h].parent

(***************************************************************************)
(* Loading.                                                                *)
(***************************************************************************)
\* C11: NewSeekerFS decodes the root header from offset 0 of the source
\* whatever the source's offset is when it is called: called on the buffer
\* a pack has filled, rewound or not, it returns a SeekerFS whose topFile is
\* the header at offset 0, the packed root's.
C11_LoadReadsOffsetZero ==
    last.op = "Load"
    => /\ last.e = "nil"
       /\ last.f = HeaderAt(queue.output.Data, 0)
       /\ RootOf(1) = 0

\* The bytes NewSeekerFS has to decode: those from the source's offset on,
\* fileStructSize of them or as many as there are.
AtOffset ==
    Slice(queue.output.Data, queue.output.Offset,
          Min(queue.output.Offset + fileStructSize, Len(queue.output.Data)))

\* The step is a call of NewSeekerFS.
LoadTaken == last.op = "none" /\ last'.op = "Load"

\* C12: NewSeekerFS returns an error and no SeekerFS whenever the header it
\* decodes cannot be fully read, has a magic other than "1337FILE", has no
\* directory bit, or is a directory with a Size above 2^31 - 1; in every
\* other case it returns a SeekerFS and no error.
C12_LoadFailsOnBadHeader ==
    [][LoadTaken =>
         LET b == AtOffset
             bad == \/ Len(b) < fileStructSize
                    \/ Slice(b, 0, 8) # <<49, 51, 51, 55, 70, 73, 76, 69>>
                    \/ b[12] < 128
                    \/ b[52] >= 128
                    \/ \E i \in 53..56 : b[i] # 0
         IN  IF bad THEN last'.e # "nil" /\ fss' = <<>>
             ELSE last'.e = "nil" /\ Len(fss') = 1]_vars

\* NewSeekerFS has failed on a source that holds exactly a header with the
\* magic, the directory bit and a Size of 2^31.
C12_Witness ==
    /\ last.op = "Load" /\ last.e # "nil" /\ fss = <<>>
    /\ Len(queue.output.Data) = fileStructSize
    /\ Slice(queue.output.Data, 0, 8) = MagicBytes
    /\ queue.output.Data[12] >= 128
    /\ Slice(queue.output.Data, 48, 56) = <<0, 0, 0, 128, 0, 0, 0, 0>>

(***************************************************************************)
(* The calls on a SeekerFSFile.                                            *)
(***************************************************************************)
\* What C13 says of a Read into a buffer of length len on file handle k,
\* from the state before the call to the state after it.
ReadAsSpecified(k, len) ==
    LET c == files[k].readOffset
        size == files[k].f.Size
        from == files[k].f.DataOffset + c
        n == Min(len, size - c)
    IN  /\ c < size
           => /\ last'.e = "nil"
              /\ Len(last'.data) = n
              /\ from + n <= Len(queue.output.Data)
              /\ last'.data = Slice(queue.output.Data, from, from + n)
              /\ files'[k].readOffset = c + n
        /\ c >= size
           => /\ last'.e = "EOF"
              /\ last'.data = <<>>
              /\ files'[k].readOffset = c
        /\ last'.e = "EOF" => last'.data = <<>>

\* C13: Read on a regular file's handle with cursor c < Size returns
\* min(len(buf), Size - c) bytes, the stream's bytes from DataOffset + c on,
\* and no error, and advances the cursor by that count; with c >= Size it
\* returns no bytes and io.EOF and leaves the cursor; io.EOF never comes
\* with bytes.
C13_ReadClampedThenEOF ==
    [][\A k \in 1..Len(files), len \in ReadLens :
           (ReadFile(k, len) /\ ~IsDir(files[k].f))
           => ReadAsSpecified(k, len)]_vars

\* The position Seek(offset, whence) on file handle k asks for, whence one
\* of io.SeekStart, io.SeekCurrent and io.SeekEnd.
Asked(k, offset, whence) ==
    IF whence = 0 THEN offset
    ELSE IF whence = 1 THEN files[k].readOffset + offset
    ELSE files[k].f.Size + offset

\* C14: a Seek on a regular file's handle to a position beyond Size returns
\* that position and no error and sets the cursor to it; a Read with the
\* cursor beyond Size, where only such a Seek can have put it and where it
\* stays until the next Seek, returns no bytes and io.EOF and leaves the
\* source and the handle as they are.
C14_SeekPastEndThenEOF ==
    [][/\ \A k \in 1..Len(files), offset \in SeekOffsets, whence \in 0..2 :
             (/\ SeekFile(k, offset, whence)
              /\ ~IsDir(files[k].f)
              /\ Asked(k, offset, whence) > files[k].f.Size)
             => /\ last'.e = "nil"
                /\ last'.n = Asked(k, offset, whence)
                /\ files'[k].readOffset = Asked(k, offset, whence)
       /\ \A k \in 1..Len(files), len \in ReadLens :
             (/\ ReadFile(k, len)
              /\ ~IsDir(files[k].f)
              /\ files[k].readOffset > files[k].f.Size)
             => /\ last'.e = "EOF"
                /\ last'.n = 0 /\ last'.data = <<>>
                /\ queue'.output = queue.output
                /\ files' = files]_vars

\* A Read has returned io.EOF on a file whose cursor is beyond its Size.
C14_Witness ==
    /\ last.op = "Read" /\ last.e = "EOF"
    /\ files[last.k].readOffset > files[last.k].f.Size
    /\ files[last.k].f.Size > 0

\* C15: a Seek whose position, counted from the start, from the cursor or
\* from the end, would be negative returns an error and leaves the cursor
\* where it was.
C15_NegativeSeekKeepsCursor ==
    [][\A k \in 1..Len(files), offset \in SeekOffsets, whence \in 0..2 :
           (SeekFile(k, offset, whence) /\ Asked(k, offset, whence) < 0)
           => /\ last'.e # "nil"
              /\ files'[k].readOffset = files[k].readOffset]_vars

\* A Seek on a regular file has failed, and not for its whence, with the
\* cursor away from the start.
C15_Witness ==
    /\ last.op = "Seek" /\ last.e # "nil"
    /\ ~IsDir(files[last.k].f)
    /\ files[last.k].readOffset > 0

\* The SeekerFSFileInfo of child i (from 0) of the directory of handle k, as
\* the stream holds the child's header and name.
ChildInfo(k, i) ==
    LET h == HeaderAt(queue.output.Data,
                      files[k].f.DataOffset + i * fileStructSize)
    IN  [FileName |-> NameOnStream(queue.output.Data, h), FileSize |-> h.Size,
         FileMode |-> h.Mode, FileModTime |-> h.ModTime]

\* What C16 says of ReadDir(n) on directory handle k, from the state before
\* the call to the state after it.
ReadDirAsSpecified(k, n) ==
    LET c == files[k].readOffset
        size == files[k].f.Size
        end == IF n <= 0 THEN size ELSE Min(c + n, size)
    IN  /\ c < size
           => /\ last'.e = "nil"
              /\ Len(last'.infos) = end - c
              /\ \A i \in 1..(end - c) :
                     /\ last'.infos[i] = ChildInfo(k, c + i - 1)
                     /\ Len(last'.infos[i].FileName) > 0
              /\ \A i \in 1..(end - c - 1) :
                     stringsCompare(last'.infos[i].FileName,
                                    last'.infos[i + 1].FileName) < 0
              /\ files'[k].readOffset = end
        /\ c >= size
           => /\ last'.e = "EOF"
              /\ last'.infos = <<>>
              /\ files'[k].readOffset = c

\* C16: ReadDir(n) on a directory's handle with cursor c < Size returns the
\* children at indices c .. min(c + n, Size) - 1, all from c on when n <= 0,
\* in the order of the stream and with their full names, and sets the
\* cursor to that end index; with the cursor at Size it returns io.EOF and
\* leaves the cursor.
C16_ReadDirFromCursor ==
    [][\A k \in 1..Len(files), n \in ReadDirArgs :
           (ReadDirFile(k, n) /\ IsDir(files[k].f))
           => ReadDirAsSpecified(k, n)]_vars

\* ReadDir has returned the last entry, of a name longer than 8 bytes, of a
\* directory of more entries, the cursor having been past the first.
C16_Witness ==
    /\ last.op = "ReadDir" /\ last.e = "nil"
    /\ Len(last.infos) = 1
    /\ Len(last.infos[1].FileName) > 8
    /\ files[last.k].f.Size > 1
    /\ files[last.k].readOffset = files[last.k].f.Size

(***************************************************************************)
(* The writer's limits.                                                    *)
(***************************************************************************)
\* The depth of source node i: 0 for the root, one more than its parent's
\* for every other node.
RECURSIVE Depth(_, _)
Depth(tree, i) == IF i = 0 THEN 0 ELSE 1 + Depth(tree, tree[i].parent)

\* The header slots reserved so far.
Slots == {i \in DOMAIN slotOf : slotOf[i] >= 0}

\* CreateSeekerFS has returned.
Returns == pc \notin {"start", "loop"}

\* Only the named limit is set.
OnlyLimit(name) ==
    \A other \in {"MaxDepth", "MaxOutputSize", "MaxTotalEntries"} \ {name} :
        queue.settings[other] = 0

\* The bytes a pack of the source appends in all: a header for every entry,
\* the names longer than 8 bytes and the payloads.
BytesNeeded ==
    fileStructSize * (1 + Len(queue.inputFS))
    + LongNameBytes(queue.inputFS)
    + SumOver(1..Len(queue.inputFS),
              [i \in 1..Len(queue.inputFS) |->
                  IF queue.inputFS[i].dir THEN 0 ELSE queue.inputFS[i].size])

\* C17: with MaxTotalEntries = m > 0 the header slots reserved, the root's
\* included, are never more than m; the pack fails on this limit only when
\* the source has more than m entries, the root counted, and with no other
\* limit set it fails on it whenever the source has more and returns nil
\* when the source has m or fewer.
C17_TotalEntriesLimit ==
    queue.settings.MaxTotalEntries > 0
    => /\ Cardinality(Slots) <= queue.settings.MaxTotalEntries
       /\ queue.totalFilesWritten <= queue.settings.MaxTotalEntries
       /\ pc = "MaxTotalEntries"
          => 1 + Len(queue.inputFS) > queue.settings.MaxTotalEntries
       /\ (Returns /\ OnlyLimit("MaxTotalEntries"))
          => IF 1 + Len(queue.inputFS) > queue.settings.MaxTotalEntries
             THEN pc = "MaxTotalEntries"
             ELSE pc = "done"

\* A pack of a source of exactly m entries under MaxTotalEntries = m > 1 has
\* returned nil.
C17_Witness ==
    /\ pc = "done"
    /\ queue.settings.MaxTotalEntries = 1 + Len(queue.inputFS)
    /\ Len(queue.inputFS) > 0

\* C18: with MaxOutputSize = L > 0 the sink is never longer than L, whether
\* the pack goes on, has failed or has returned nil; the pack fails on this
\* limit only when the bytes to append in all are more than L, and with no
\* other limit set it returns nil when they are not.
C18_OutputSizeLimit ==
    queue.settings.MaxOutputSize > 0
    => /\ Len(queue.output.Data) <= queue.settings.MaxOutputSize
       /\ pc = "MaxOutputSize" => BytesNeeded > queue.settings.MaxOutputSize
       /\ (Returns /\ OnlyLimit("MaxOutputSize")
            /\ BytesNeeded <= queue.settings.MaxOutputSize)
          => pc = "done"

\* A pack has failed on MaxOutputSize at a payload that would have ended one
\* byte past the limit, and the sink holds the header slots only.
C18_Witness ==
    /\ pc = "MaxOutputSize"
    /\ queue.settings.MaxOutputSize = 2 * fileStructSize + MaxData - 1
    /\ Len(queue.output.Data) = 2 * fileStructSize
    /\ Len(queue.inputFS) = 1

\* C19: with MaxDepth = d > 0 no entry deeper than d is given a header slot
\* or pushed on the stack, and every entry on the stack carries its depth;
\* the pack fails on this limit only when the source has an entry deeper
\* than d, and with no other limit set it fails on it whenever the source
\* has one and returns nil when the deepest entry has depth d or less.
C19_DepthLimit ==
    queue.settings.MaxDepth > 0
    => /\ \A i \in Slots : Depth(queue.inputFS, i) <= queue.settings.MaxDepth
       /\ \A j \in 1..Len(queue.unprocessed) :
              /\ queue.unprocessed[j].depth <= queue.settings.MaxDepth
              /\ queue.unprocessed[j].depth
                 = Depth(queue.inputFS, queue.unprocessed[j].toProcess)
       /\ pc = "MaxDepth"
          => \E i \in Nodes(queue.inputFS) :
                 Depth(queue.inputFS, i) > queue.settings.MaxDepth
       /\ (Returns /\ OnlyLimit("MaxDepth"))
          => IF \E i \in Nodes(queue.inputFS) :
                    Depth(queue.inputFS, i) > queue.settings.MaxDepth
             THEN pc = "MaxDepth"
             ELSE pc = "done"

\* A pack of a source whose deepest entry has depth d > 1 under
\* MaxDepth = d has returned nil.
C19_Witness ==
    /\ pc = "done"
    /\ queue.settings.MaxDepth > 1
    /\ \E i \in Nodes(queue.inputFS) :
           Depth(queue.inputFS, i) = queue.settings.MaxDepth
    /\ \A i \in Nodes(queue.inputFS) :
           Depth(queue.inputFS, i) <= queue.settings.MaxDepth

\* The path is one the io/fs rules refuse: it starts or ends with "/", holds
\* two adjacent "/" or nothing at all, or one of its components is "." or
\* ".." while the path is not "." itself.
Refused(path) ==
    \/ path = <<>>
    \/ path # <<>> /\ (path[1] = Slash \/ path[Len(path)] = Slash)
    \/ \E i \in 1..(Len(path) - 1) : path[i] = Slash /\ path[i + 1] = Slash
    \/ path # Dot /\ \E k \in 1..Len(Split(path)) :
                        Split(path)[k] \in {Dot, DotDot}

\* The call with this path returned a path error carrying ErrInvalid, made no
\* handle, and left the source, its offset included, as it was.
RefusedUnread(path) ==
    /\ last'.path = path
    /\ last'.e = "ErrInvalid"
    /\ last'.pathError
    /\ queue' = queue
    /\ files' = files
    /\ fss' = fss

\* C20: Open and Sub reject, with a path error carrying ErrInvalid and
\* without reading the source, every path that starts or ends with "/",
\* contains an empty component, or contains a "." or ".." component; the
\* whole string "." is accepted and resolves to the root header of the
\* SeekerFS it is called on.
C20_InvalidPathsRefused ==
    [][LET h == last'.h
           path == last'.path
       IN  /\ last'.op = "Open" /\ Open(h, path) /\ Refused(path)
                 => RefusedUnread(path)
           /\ last'.op = "Sub" /\ SubFS(h, path) /\ Refused(path)
                 => RefusedUnread(path)
           /\ last'.op = "Open" /\ path = Dot /\ Open(h, path)
                 => /\ last'.e = "nil"
                    /\ Len(files') = Len(files) + 1
                    /\ files'[Len(files')].f = fss[h].topFile
                    /\ files'[Len(files')].p = h
                    /\ queue' = queue
           /\ last'.op = "Sub" /\ path = Dot /\ SubFS(h, path)
                 => /\ last'.e = "nil"
                    /\ Len(fss') = Len(fss) + 1
                    /\ fss'[Len(fss')].topFile = fss[h].topFile
                    /\ queue' = queue]_vars

\* Open has just refused a path ending in "/" on a SeekerFS that Sub made,
\* rooted below the root of the stream.
C20_Witness ==
    /\ last.op = "Open"
    /\ last.h = 2
    /\ made[2].path # Dot
    /\ last.path = NameA \o <<Slash>>
    /\ last.e = "ErrInvalid"
    /\ last.pathError

\* The header slot at offset off of the sink still holds the zeros it was
\* reserved with.
Placeholder(data, off) ==
    Slice(data, off, off + fileStructSize) = Zeros(fileStructSize)

\* The source nodes whose task is on the work stack of q.
OnStack(q) == {q.unprocessed[j].toProcess : j \in 1..Len(q.unprocessed)}

\* The entries whose task was popped and whose header was never written: the
\* step that processed them failed before its back-patch.
Abandoned ==
    {i \in Slots : i \notin OnStack(queue)
                   /\ Placeholder(queue.output.Data, slotOf[i])}

BufTarget(b, offset, whence) ==
    offset + (IF whence = SeekEnd THEN Len(b.Data)
              ELSE IF whence = SeekCurrent THEN b.Offset
              ELSE 0)

\* C22: a Seek on the SeekableBuffer whose whence is none of the three known
\* values, or whose resulting position is negative, returns an error and
\* leaves the buffer's Offset and its Data, contents and length, as they
\* were; every other Seek returns no error.
C22_FailedSeekChangesNothing ==
    [][\A offset \in BufOffsets, whence \in SeekWhences :
          SeekBuffer(offset, whence)
          => IF whence \notin {SeekStart, SeekCurrent, SeekEnd}
                \/ BufTarget(queue.output, offset, whence) < 0
             THEN /\ last'.e # "nil"
                  /\ queue'.output.Offset = queue.output.Offset
                  /\ queue'.output.Data = queue.output.Data
             ELSE last'.e = "nil"]_vars

\* A Seek to a negative position has just failed on a buffer that holds
\* written bytes, with its offset away from the start.
C22_Witness ==
    /\ last.op = "Buffer.Seek"
    /\ last.e # "nil"
    /\ queue.output.Offset > 0
    /\ \E i \in 1..Len(queue.output.Data) : queue.output.Data[i] # 0

\* C23: the buffer's length never decreases.  A Seek that succeeds for
\* position p leaves the length at max(length, p), every byte it adds zero
\* and every earlier byte as it was; a Write of n bytes at offset o leaves
\* the length at max(length, o + n), the n bytes at [o, o + n) and every
\* other byte as it was.
C23_BufferOnlyGrows ==
    [][/\ Len(queue'.output.Data) >= Len(queue.output.Data)
       /\ \A offset \in BufOffsets, whence \in SeekWhences :
            (SeekBuffer(offset, whence) /\ last'.e = "nil")
            => /\ Len(queue'.output.Data)
                  = Max(Len(queue.output.Data),
                        BufTarget(queue.output, offset, whence))
               /\ Slice(queue'.output.Data, 0, Len(queue.output.Data))
                  = queue.output.Data
               /\ \A i \in (Len(queue.output.Data) + 1)
                           ..Len(queue'.output.Data) :
                      queue'.output.Data[i] = 0
       /\ \A data \in BufWrites :
            WriteBuffer(data)
            => /\ Len(queue'.output.Data)
                  = Max(Len(queue.output.Data),
                        queue.output.Offset + Len(data))
               /\ Slice(queue'.output.Data, queue.output.Offset,
                        queue.output.Offset + Len(data)) = data
               /\ \A i \in 1..Len(queue.output.Data) :
                      (i <= queue.output.Offset
                       \/ i > queue.output.Offset + Len(data))
                      => queue'.output.Data[i] = queue.output.Data[i]]_vars

\* A Write inside the buffer has just left bytes after the written ones in
\* place.
C23_Witness ==
    /\ last.op = "Buffer.Write"
    /\ last.n > 0
    /\ queue.output.Offset + last.n < Len(queue.output.Data)
    /\ queue.output.Data[Len(queue.output.Data)] # 0

\* C24: compareFileName(entry, name) returns, with no error, the sign of
\* the byte-wise comparison of the entry's full base name with name,
\* whatever the two lengths; it returns 0 exactly when the two are equal.
C24_CompareIsFullNameOrder ==
    last.op = "compareFileName"
    => /\ last.e = "nil"
       /\ last.n = stringsCompare(queue.inputFS[last.k].name, last.path)

\* The call c is inside getNamedDirEntry's search of the non-empty directory
\* c.cur for the next component of its path.
Searching(c) ==
    /\ c.op \in {"Open", "Sub"}
    /\ c.comps # <<>>
    /\ IsDir(c.cur)
    /\ c.cur.Size > 0

\* The header the search of c fetches next is that of a child of c.cur.
ProbeInside(c) ==
    (c.pc # "return" /\ c.io.kind = "entry")
    => /\ c.currentIndex >= 0
       /\ c.currentIndex < c.cur.Size
       /\ c.io.location = dirEntryOffset(c.cur, c.currentIndex)

\* A search of c that has returned without a component found returned
\* not-exists, its interval empty.
EndsNotExist(c) ==
    c.pc = "return" => (c.e = "ErrNotExist" /\ c.beginIndex > c.endIndex)

\* C25: while a component is looked up in a directory of Size = n children,
\* every header fetched is the one at DataOffset + i*S for an index i with
\* 0 <= i < n, no index from n on is probed, the interval shrinks with
\* every probe, and the search of that directory ends, when its reads
\* succeed, with the entry found or with not-exists.
C25_SearchProbesInside ==
    [][\A t \in Threads :
          (Searching(th[t]) /\ th[t].ioe = "nil" /\ ReleaseLock(t)
             /\ Searching(resume(th[t])))
          => /\ ProbeInside(resume(th[t]))
             /\ EndsNotExist(resume(th[t]))
             /\ resume(th[t]).cur = th[t].cur
                => resume(th[t]).endIndex - resume(th[t]).beginIndex
                   < th[t].endIndex - th[t].beginIndex]_vars

\* Thread t holds mutex l.
Holds(t, l) == holder[l] = t

\* Every mutex that is held is held by a thread that is inside one fetch it
\* makes under the mutex of its SeekerFS: past Lock, not yet past Unlock.
HeldInsideOneFetch ==
    \A l \in LockIds :
        holder[l] # 0
        => /\ holder[l] \in Threads
           /\ InLockedFetch(holder[l])
           /\ lockOf(th[holder[l]]) = l

\* C26: the mutex is held only inside a single fetch from the source: the
\* thread that holds it is between the Lock and the Unlock of one header,
\* child-block or name fetch, a thread that goes on to its next fetch or
\* returns, with or without an error, has released it, no thread in no call
\* holds it, and a thread that waits for it (thread 1, the threads being
\* alike) gets it.
C26_MutexHeldPerFetch ==
    /\ []HeldInsideOneFetch
    /\ [][\A t \in Threads :
            /\ (th[t].pc = "release" /\ th'[t] # th[t])
               => \A l \in LockIds : ~Holds(t, l)'
            /\ \A l \in LockIds :
                  (Holds(t, l) /\ Holds(t, l)') => th'[t].io = th[t].io]_vars
    /\ (th[1].pc = "acquire") ~> (th[1].pc # "acquire")

\* A thread is about to take the mutex for the fetch of a long name, the
\* second fetch of its probe, while the other thread holds the mutex.
C26_Witness ==
    \E t \in Threads :
        /\ th[t].pc = "acquire"
        /\ th[t].io.kind = "name"
        /\ holder[lockOf(th[t])] \notin {0, t}

\* The entries whose task has been popped from the work stack.
Popped == {i \in Slots : i \notin OnStack(queue)}

PatchOf(i) ==
    {k \in 1..Len(queue.writes) :
        queue.writes[k].op = "patch" /\ queue.writes[k].at = slotOf[i]}

\* Before its k-th Write the sink took an appending Write of n bytes at at.
AppendedBefore(k, at, n) ==
    \E j \in 1..(k - 1) :
        queue.writes[j] = [op |-> "append", at |-> at, n |-> n]

\* The bytes io.CopyN handed to the sink at offset at or beyond, in the first
\* k Write calls.
RECURSIVE CopiedBy(_, _)
CopiedBy(k, at) ==
    IF k = 0 THEN 0
    ELSE CopiedBy(k - 1, at)
         + (IF queue.writes[k].op = "copy" /\ queue.writes[k].at >= at
            THEN queue.writes[k].n ELSE 0)

\* What entry i's header points to had been handed to the sink before the
\* k-th Write: its long name, a file's whole payload, a placeholder in the
\* slot of every child of a directory.
ContentWritten(i, k) ==
    LET tree == queue.inputFS
        h == HeaderAt(queue.output.Data, slotOf[i])
        stat == Stat(tree, i)
    IN  /\ Len(stat.Name) > 8 =>
               AppendedBefore(k, h.NameOffset, Len(stat.Name))
        /\ (~stat.IsDir /\ stat.Size > 0) =>
               CopiedBy(k - 1, h.DataOffset) = stat.Size
        /\ stat.IsDir =>
               \A c \in Children(tree, i) :
                   slotOf[c] >= 0
                   /\ AppendedBefore(k, slotOf[c], fileStructSize)

\* The offsets of the stream where the magic stands.
MagicAt(data) ==
    {o \in 0..(Len(data) - 8) : Slice(data, o, o + 8) = MagicBytes}

\* Every slot of a popped entry was back-patched by exactly one Write, made
\* after its content, no other Write was a back-patch, and no slot of an
\* entry on the stack was; after a return of nil the stack is empty, no
\* placeholder is left and there are as many magics as entries.
BackPatched ==
    /\ \A i \in Nodes(queue.inputFS) :
           /\ Cardinality(PatchOf(i)) = IF i \in Popped THEN 1 ELSE 0
           /\ \A k \in PatchOf(i) : ContentWritten(i, k)
    /\ \A k \in 1..Len(queue.writes) :
           queue.writes[k].op = "patch" =>
               \E i \in Slots : queue.writes[k].at = slotOf[i]
    /\ Packed =>
           /\ queue.unprocessed = <<>>
           /\ \A o \in 0..(Len(queue.output.Data) - fileStructSize) :
                  ~Placeholder(queue.output.Data, o)
           /\ Cardinality(MagicAt(queue.output.Data))
                  = Len(queue.inputFS) + 1

\* A step leaves the bytes of every slot it did not back-patch as they were,
\* and turns a placeholder into a header only by its back-patch.
SlotsKept ==
    \A i \in Slots :
        LET before == Slice(queue.output.Data, slotOf[i],
                            slotOf[i] + fileStructSize)
            after == Slice(queue'.output.Data, slotOf[i],
                           slotOf[i] + fileStructSize)
        IN  IF before = Zeros(fileStructSize) /\ i \in OnStack(queue)
               /\ i \notin OnStack(queue')
            THEN HeaderAt(queue'.output.Data, slotOf[i]).Magic = MagicBytes
            ELSE after = before

\* C28: in a pack without limits, which cannot fail, every reserved header
\* slot is back-patched by exactly one Write, in the step that pops its
\* entry, and that Write comes after the Writes of the entry's long name, of
\* a file's payload and of the placeholders of all of a directory's children;
\* a slot is never written again; and when CreateSeekerFS has returned nil
\* the work stack is empty, the stream holds no run of 64 zero bytes, and
\* the magic stands at as many offsets as the source has entries, the root
\* included.
C28_BackPatchedOnceAfterContent == []BackPatched /\ [][SlotsKept]_vars

\* A finished pack of a directory holding a long-named file whose payload
\* reached the sink in two Writes.
C28_Witness ==
    /\ Packed
    /\ \E i, j \in 1..Len(queue.inputFS) :
           /\ queue.inputFS[i].dir
           /\ queue.inputFS[j].parent = i
           /\ Len(queue.inputFS[j].name) > 8
           /\ queue.inputFS[j].size = MaxData
    /\ \E k \in 1..(Len(queue.writes) - 1) :
           queue.writes[k].op = "copy" /\ queue.writes[k + 1].op = "copy"

\* C29: in every state the cursor of every open SeekerFSFile lies between 0
\* and the Size of its header, the byte count of a file and the child count
\* of a directory, whatever Read, Seek and ReadDir calls were made on it.
C29_CursorWithinSize ==
    \A k \in 1..Len(files) :
        files[k].readOffset >= 0 /\ files[k].readOffset <= files[k].f.Size

(***************************************************************************)
(* C30.  The cursor of an open directory.                                  *)
(***************************************************************************)
\* The open SeekerFSFiles that are directories.
DirHandles == {k \in 1..Len(files) : IsDir(files[k].f)}

\* The call just made on file k returned an error and left the handle and
\* the source as they were.
RefusedUntouched(k) ==
    /\ last'.e # "nil"
    /\ files'[k] = files[k]
    /\ queue'.output = queue.output

\* What a step does to the open directories: no cursor goes back; a Read or
\* a Seek on one fails, and neither the handle nor the source changes; a
\* ReadDir that fails leaves the handle as it was.
DirCursorStep ==
    \A k \in DirHandles :
        /\ k <= Len(files')
        /\ files'[k].readOffset >= files[k].readOffset
        /\ \A len \in ReadLens : ReadFile(k, len) => RefusedUntouched(k)
        /\ \A offset \in SeekOffsets, whence \in SeekWhences :
               SeekFile(k, offset, whence) => RefusedUntouched(k)
        /\ \A n \in ReadDirArgs :
               (ReadDirFile(k, n) /\ last'.e # "nil") =>
                   files'[k] = files[k]

\* C30: over any sequence of ReadDir, Read and Seek calls on an open
\* directory its cursor never decreases; a call that fails leaves it
\* unchanged; Read and Seek on a directory always return an error and leave
\* the shared source, its seek position included, as it was.
C30_DirCursorMonotone == [][DirCursorStep]_vars

\* A directory of two entries was read up to the first, and a Read or a Seek
\* on it has then been refused.
C30_Witness ==
    /\ last.op \in {"Read", "Seek"}
    /\ last.e # "nil"
    /\ last.k \in DirHandles
    /\ files[last.k].f.Size = 2
    /\ files[last.k].readOffset = 1

(***************************************************************************)
(* C31.  Calls on a SeekerFSFile after its Close.                          *)
(***************************************************************************)
\* The file handles Close was called on.
ClosedHandles == {k \in 1..Len(files) : opened[k].closed}

\* No call that is on its way to a fetch, or in one, is a call on a closed
\* handle.
ClosedInert ==
    \A t \in Threads :
        (th[t].pc # "idle" /\ th[t].op \in {"Read", "ReadDir", "Stat"}) =>
            th[t].k \notin ClosedHandles

\* Thread t's step is a call on file handle k.
CallOn(t, k) ==
    \/ \E len \in MTReadLens : StartRead(t, k, len)
    \/ \E n \in ReadDirCounts : StartReadDir(t, k, n)
    \/ StartStat(t, k)
    \/ th[t].pc = "idle" /\ opened[k].t = t /\ SeekFile(k, 1, SeekStart)
    \/ CloseFile(t, k)

\* A call on a closed handle is over in its step, with no mutex taken and
\* the source as it was; a Close leaves the source, the mutexes, the calls
\* in flight, every SeekerFS and every other file handle as they were.
ClosedStep ==
    \A t \in Threads, k \in 1..Len(files) :
        /\ (k \in ClosedHandles /\ CallOn(t, k)) =>
               /\ th'[t].pc = "idle"
               /\ holder' = holder
               /\ queue'.output = queue.output
        /\ CloseFile(t, k) =>
               /\ queue'.output = queue.output
               /\ holder' = holder /\ th' = th
               /\ fss' = fss
               /\ Len(files') = Len(files)
               /\ \A j \in 1..Len(files) : j # k => files'[j] = files[j]

\* C31: after Close on a SeekerFSFile no call on it (Read, ReadDir, Stat,
\* Seek, Close) waits for or takes the mutex, or seeks or reads the shared
\* source: the call is over at once (it panics on the nil references, Close
\* returns nil again); and Close changes neither the source, nor a mutex,
\* nor a SeekerFS and its root header, nor the header or cursor of another
\* file handle, nor another thread's call in flight.
C31_ClosedHandleInert == []ClosedInert /\ [][ClosedStep]_vars

\* A call on a closed handle has panicked while another thread is reading
\* the source for a Read on its own, open handle.
C31_Witness ==
    /\ last.e = "panic"
    /\ last.k \in ClosedHandles
    /\ \E t \in Threads :
           /\ th[t].pc = "read" /\ th[t].op = "Read"
           /\ th[t].k \notin ClosedHandles

\* C32: a Write of n bytes to a SeekableBuffer whose offset is o stores the
\* bytes at o and leaves the offset at o + n, so that the next Write, with
\* no Seek between, stores its bytes behind them.
C32_WriteAdvancesOffset ==
    [][\A data \in BufWrites :
           WriteBuffer(data) =>
               /\ Slice(queue'.output.Data, queue.output.Offset,
                        queue.output.Offset + Len(data)) = data
               /\ queue'.output.Offset = queue.output.Offset + Len(data)]_vars

(***************************************************************************)
(* C33.  The stream during a pack: appends and back-patches.               *)
(***************************************************************************)
\* The length of the stream after the first k Write calls of the pack.
RECURSIVE EndAfter(_)
EndAfter(k) ==
    IF k = 0 THEN 0
    ELSE Max(EndAfter(k - 1), queue.writes[k].at + queue.writes[k].n)

\* The byte ranges the headers written so far give to the entries: the slot
\* of every entry that has one, and the out-of-line name and the payload of
\* every entry whose header was back-patched.
Extents ==
    {[kind |-> "slot", i |-> i, from |-> slotOf[i], n |-> fileStructSize] :
        i \in Slots}
    \cup {[kind |-> "name", i |-> i, from |-> HeaderOf(i).NameOffset,
           n |-> HeaderOf(i).NameSize] :
            i \in {j \in Popped : HeaderOf(j).NameSize > 8}}
    \cup {[kind |-> "payload", i |-> i, from |-> HeaderOf(i).DataOffset,
           n |-> HeaderOf(i).Size] :
            i \in {j \in Popped : ~IsDir(HeaderOf(j)) /\ HeaderOf(j).Size > 0}}

\* Every back-patch wrote the fileStructSize bytes of a reserved slot inside
\* the stream, every other Write started at the end the stream then had, and
\* the ranges of slots, names and payloads lie in the stream and apart.
AppendStructured ==
    /\ \A k \in 1..Len(queue.writes) :
           IF queue.writes[k].op = "patch"
           THEN /\ \E i \in Slots : queue.writes[k].at = slotOf[i]
                /\ queue.writes[k].n = fileStructSize
                /\ EndAfter(k) = EndAfter(k - 1)
           ELSE queue.writes[k].at = EndAfter(k - 1)
    /\ Len(queue.output.Data) = EndAfter(Len(queue.writes))
    /\ \A x, y \in Extents :
           /\ x.from + x.n <= Len(queue.output.Data)
           /\ x # y => (x.from + x.n <= y.from \/ y.from + y.n <= x.from)

\* A step of the pack changes no byte the stream held, but for the slot of
\* the entry it popped.
WrittenKept ==
    \A o \in 1..Len(queue.output.Data) :
        \/ queue'.output.Data[o] = queue.output.Data[o]
        \/ \E i \in OnStack(queue) \ OnStack(queue') :
               o - 1 \in slotOf[i]..(slotOf[i] + fileStructSize - 1)

\* C33: during a pack a back-patch writes exactly the fileStructSize bytes
\* of the entry's own reserved slot and leaves the length of the stream as
\* it is, every other Write starts at the end of the stream, no step changes
\* a byte written before it other than the popped entry's slot, and the
\* header slots, the out-of-line names and the payloads lie inside the
\* stream in byte ranges that are pairwise disjoint.
C33_AppendStructured == []AppendStructured /\ [][WrittenKept]_vars

=============================================================================
